---- MODULE Spec2Model ----
(***************************************************************************)
(* Model of the 1Password credential broker (aniruthmp/1password-demo):    *)
(* the token codec (core/token_manager.py), the credential issuance        *)
(* service (core/credential_manager.py), the audit sink                    *)
(* (core/audit_logger.py) and the three protocol front-ends.               *)
(*                                                                         *)
(* Time is counted in ticks, TicksPerSecond ticks to the second, so that   *)
(* the whole-second NumericDate of a JWT claim and the sub-second wall     *)
(* clock that issues and verifies it are different things.                 *)
(***************************************************************************)
EXTENDS Integers, Sequences, FiniteSets, TLC

\* ------------------------------------------------------------------------
\* Bounds of the model
\* ------------------------------------------------------------------------
TicksPerSecond == 2
MaxIssueTick == 3
MaxExtraSeconds == 2
MaxLogCalls == 2
MaxInflight == 2
MaxRetriesInput == 2
MaxQueueEvents == 1100
MaxFrontRequests == 1
MaxSessionCalls == 4
MaxSessionTicks == 2
MaxWords == 4
MaxHolderMinutes == 2
MaxTasks == 3
MaxOverlapped == 2

\* ------------------------------------------------------------------------
\* Program constants
\* ------------------------------------------------------------------------
SecondsPerMinute == 60
MinTTL == 1
MaxTTL == 15
DefaultTTL == 5
SigChars == 43
PadBits == 2
BadChar == 64
QueueMaxLen == 1000
MaxRetries == 3
RetryDelay == 1

TicksPerMinute == SecondsPerMinute * TicksPerSecond
MaxNow == (MaxTTL * SecondsPerMinute + MaxExtraSeconds) * TicksPerSecond + MaxIssueTick

\* ------------------------------------------------------------------------
\* Input sets
\* ------------------------------------------------------------------------
Secrets == {"K1", "K2", "K3"}
BrokerSecret == "K1"
Agents == {"agent-1", "agent-2"}
ResourceTypes == {"database", "api", "ssh", "generic"}
ResourceNames == {"prod-db", "stripe-api"}
CredMaps == { [username |-> "admin", password |-> "s3cret"],
              [api_key |-> "key-1", _item_id |-> "i1"] }

VARIABLES now, held, request, result,
          cfg, localLog, failedQueue, inflight, nextEventId, front,
          sweep, accepted, sessions, sessionCalls, nextUuid, loop

vars == <<now, held, request, result,
          cfg, localLog, failedQueue, inflight, nextEventId, front,
          sweep, accepted, sessions, sessionCalls, nextUuid, loop>>

sessionVars == <<sessions, sessionCalls, nextUuid, loop>>

auditVars == <<cfg, localLog, failedQueue, inflight, nextEventId, front,
               sweep, accepted, sessionVars>>

\* ------------------------------------------------------------------------
\* Token codec: encryption layer
\* ------------------------------------------------------------------------
\* PBKDF2 with the fixed salt: the same secret always gives the same key,
\* different secrets give different keys.
InitializeFernet(secret) == <<"pbkdf2-sha256", "1password-broker-salt", secret>>

\* json.dumps / json.loads of a credential map: text is modelled as the set
\* of its key/value members.
JsonDumps(data) == { <<k, data[k]>> : k \in DOMAIN data }
JsonLoads(text) == [ k \in { m[1] : m \in text } |-> (CHOOSE m \in text : m[1] = k)[2] ]

\* Mutant: the key is not checked.
DecryptPayload_AnyKey(secret, encrypted) ==
    IF encrypted.kind = "fernet"
    THEN [kind |-> "ok", data |-> JsonLoads(encrypted.msg)]
    ELSE [kind |-> "error", error |-> "Invalid or corrupted encrypted data"]

\* Fernet is authenticated: decryption succeeds only under the key that
\* encrypted, anything else is InvalidToken.
EncryptPayload(secret, data) ==
    [kind |-> "fernet", key |-> InitializeFernet(secret), msg |-> JsonDumps(data)]

GarbageCiphertext == [kind |-> "garbage", key |-> <<>>, msg |-> {}]

DecryptPayload(secret, encrypted) ==
    IF encrypted.kind = "fernet" /\ encrypted.key = InitializeFernet(secret)
    THEN [kind |-> "ok", data |-> JsonLoads(encrypted.msg)]
    ELSE [kind |-> "error", error |-> "Invalid or corrupted encrypted data"]

\* ------------------------------------------------------------------------
\* Token codec: the signed envelope
\* ------------------------------------------------------------------------
NoClaim == [kind |-> "absent"]
NoToken == [kind |-> "none"]
Idle == [kind |-> "idle", op |-> "none"]

\* A datetime claim is written into the token as whole seconds.
NumericDate(tick) == tick \div TicksPerSecond

GenuineSignature == [i \in 1..SigChars |-> 0]

\* jwt.encode: the signature segment is stored as its per-character
\* difference from the base64url text of HMAC(signer, claims); a character
\* outside the alphabet is BadChar.
JwtEncode(claims, secret) ==
    [kind |-> "jwt", claims |-> claims, signer |-> secret, over |-> claims,
     sigdiff |-> GenuineSignature]

\* Mutant: the subject claim is filled with the resource name.
GenerateJwt_SubjectIsResource(secret, defaultTtl, agent, creds, rtype, rname, ttlMinutes, tick) ==
    LET ttl == IF ttlMinutes # 0 THEN ttlMinutes ELSE defaultTtl
        exp == tick + ttl * TicksPerMinute
        claims == [sub |-> rname,
                   credentials |-> EncryptPayload(secret, creds),
                   resource_type |-> rtype,
                   resource_name |-> rname,
                   iat |-> NumericDate(tick),
                   exp |-> NumericDate(exp),
                   iss |-> "1password-credential-broker",
                   ttl_minutes |-> ttl]
    IN JwtEncode(claims, secret)

GenerateJwt(secret, defaultTtl, agent, creds, rtype, rname, ttlMinutes, tick) ==
    LET ttl == IF ttlMinutes # 0 THEN ttlMinutes ELSE defaultTtl
        exp == tick + ttl * TicksPerMinute
        claims == [sub |-> agent,
                   credentials |-> EncryptPayload(secret, creds),
                   resource_type |-> rtype,
                   resource_name |-> rname,
                   iat |-> NumericDate(tick),
                   exp |-> NumericDate(exp),
                   iss |-> "1password-credential-broker",
                   ttl_minutes |-> ttl]
    IN JwtEncode(claims, secret)

\* base64url decoding of the signature segment: a character outside the
\* alphabet makes the segment undecodable.
SignatureDecodes(sigdiff) == \A i \in 1..SigChars : sigdiff[i] # BadChar

\* The 43 characters carry 258 bits for a 256-bit HMAC: the low PadBits bits
\* of the last character are discarded by the decoder.
DecodedSignatureMatches(sigdiff) ==
    /\ \A i \in 1..(SigChars - 1) : sigdiff[i] = 0
    /\ sigdiff[SigChars] \div (2 ^ PadBits) = 0

\* Mutant: the token is still accepted at its expiry instant.
VerifyJwt_LateExpiry(secret, token, tick) ==
    IF token.kind # "jwt" THEN [kind |-> "invalid"]
    ELSE IF ~SignatureDecodes(token.sigdiff) THEN [kind |-> "invalid"]
    ELSE IF \/ token.signer # secret
            \/ token.over # token.claims
            \/ ~DecodedSignatureMatches(token.sigdiff) THEN [kind |-> "invalid"]
    ELSE IF token.claims.exp * TicksPerSecond < tick THEN [kind |-> "expired"]
    ELSE [kind |-> "ok", payload |-> token.claims]

\* Mutant: the exp claim is looked at before the signature.
VerifyJwt_ExpiryFirst(secret, token, tick) ==
    IF token.kind # "jwt" THEN [kind |-> "invalid"]
    ELSE IF token.claims.exp * TicksPerSecond <= tick THEN [kind |-> "expired"]
    ELSE IF ~SignatureDecodes(token.sigdiff) THEN [kind |-> "invalid"]
    ELSE IF \/ token.signer # secret
            \/ token.over # token.claims
            \/ ~DecodedSignatureMatches(token.sigdiff) THEN [kind |-> "invalid"]
    ELSE [kind |-> "ok", payload |-> token.claims]

\* jwt.decode: segments are decoded, then the signature is checked, and only
\* then the exp claim is compared with the wall clock.
VerifyJwt(secret, token, tick) ==
    IF token.kind # "jwt" THEN [kind |-> "invalid"]
    ELSE IF ~SignatureDecodes(token.sigdiff) THEN [kind |-> "invalid"]
    ELSE IF \/ token.signer # secret
            \/ token.over # token.claims
            \/ ~DecodedSignatureMatches(token.sigdiff) THEN [kind |-> "invalid"]
    ELSE IF token.claims.exp * TicksPerSecond <= tick THEN [kind |-> "expired"]
    ELSE [kind |-> "ok", payload |-> token.claims]

\* Mutant: the payload is decrypted from the decoded claims without the
\* expiry check.
VerifyAndDecrypt_NoExpiry(secret, token, tick) ==
    LET v == VerifyJwt(secret, token, 0)
    IN IF v.kind # "ok" THEN [kind |-> v.kind, calls |-> <<"verify_jwt">>]
       ELSE IF v.payload.credentials = NoClaim
            THEN [kind |-> "no_payload", calls |-> <<"verify_jwt">>,
                  error |-> "Token does not contain encrypted credentials"]
       ELSE LET d == DecryptPayload(secret, v.payload.credentials)
            IN IF d.kind # "ok"
               THEN [kind |-> "decrypt_error", calls |-> <<"verify_jwt", "decrypt_payload">>,
                     error |-> d.error]
               ELSE [kind |-> "ok", calls |-> <<"verify_jwt", "decrypt_payload">>,
                     agent_id |-> v.payload.sub,
                     credentials |-> d.data,
                     resource_type |-> v.payload.resource_type,
                     resource_name |-> v.payload.resource_name,
                     issued_at |-> v.payload.iat,
                     expires_at |-> v.payload.exp,
                     ttl_minutes |-> v.payload.ttl_minutes]

VerifyAndDecrypt(secret, token, tick) ==
    LET v == VerifyJwt(secret, token, tick)
    IN IF v.kind # "ok" THEN [kind |-> v.kind, calls |-> <<"verify_jwt">>]
       ELSE IF v.payload.credentials = NoClaim
            THEN [kind |-> "no_payload", calls |-> <<"verify_jwt">>,
                  error |-> "Token does not contain encrypted credentials"]
       ELSE LET d == DecryptPayload(secret, v.payload.credentials)
            IN IF d.kind # "ok"
               THEN [kind |-> "decrypt_error", calls |-> <<"verify_jwt", "decrypt_payload">>,
                     error |-> d.error]
               ELSE [kind |-> "ok", calls |-> <<"verify_jwt", "decrypt_payload">>,
                     agent_id |-> v.payload.sub,
                     credentials |-> d.data,
                     resource_type |-> v.payload.resource_type,
                     resource_name |-> v.payload.resource_name,
                     issued_at |-> v.payload.iat,
                     expires_at |-> v.payload.exp,
                     ttl_minutes |-> v.payload.ttl_minutes]

\* ------------------------------------------------------------------------
\* Vault gateway (external collaborator) and credential issuance service
\* ------------------------------------------------------------------------
\* What get_item_by_title can answer for a title: an item, null, or an
\* exception of the Connect client.
VaultItems(rname) ==
    { [id |-> "item-1", title |-> rname, username |-> "admin",
       fields |-> [password |-> "s3cret", notes |-> ""], vault |-> "vault-1"],
      [id |-> "item-2", title |-> rname, username |-> "",
       fields |-> [api_key |-> "key-1", username |-> "svc"], vault |-> "vault-1"] }

VaultAnswers(rname) ==
    { [kind |-> "item", item |-> it] : it \in VaultItems(rname) }
        \cup { [kind |-> "null"] }
        \cup { [kind |-> "raises", exc |-> e] : e \in {"Exception", "ValueError"} }

\* Later writes win: the fields overwrite the primary username, the item
\* metadata overwrites the fields; empty values are left out.
ExtractCredentialFields(item) ==
    LET meta == {"_item_id", "_item_title", "_vault_id"}
        labels == { l \in DOMAIN item.fields : item.fields[l] # "" }
        dom == (IF item.username # "" THEN {"username"} ELSE {}) \cup labels \cup meta
    IN [ k \in dom |->
           IF k = "_item_id" THEN item.id
           ELSE IF k = "_item_title" THEN item.title
           ELSE IF k = "_vault_id" THEN item.vault
           ELSE IF k \in labels THEN item.fields[k]
           ELSE item.username ]

FetchCredentials_LookupFirst(rtype, rname, answer) ==
    IF answer.kind = "raises"
    THEN [kind |-> "vault_error", exc |-> answer.exc, calls |-> <<"get_item_by_title">>]
    ELSE IF rtype \notin ResourceTypes
    THEN [kind |-> "invalid_input", exc |-> "ValueError", calls |-> <<"get_item_by_title">>]
    ELSE IF answer.kind = "null"
    THEN [kind |-> "not_found", exc |-> "ValueError", calls |-> <<"get_item_by_title">>]
    ELSE [kind |-> "ok", exc |-> "none",
          calls |-> <<"get_item_by_title", "extract_credential_fields">>,
          credentials |-> ExtractCredentialFields(answer.item)]

\* kind says which branch was taken; exc is what the caller gets to see, the
\* class of the exception raised: ValueError for a bad resource_type and for
\* a missing item alike, the gateway's own exception when the lookup raises.
FetchCredentials(rtype, rname, answer) ==
    IF rtype \notin ResourceTypes
    THEN [kind |-> "invalid_input", exc |-> "ValueError", calls |-> <<>>]
    ELSE IF answer.kind = "raises"
    THEN [kind |-> "vault_error", exc |-> answer.exc, calls |-> <<"get_item_by_title">>]
    ELSE IF answer.kind = "null"
    THEN [kind |-> "not_found", exc |-> "ValueError", calls |-> <<"get_item_by_title">>]
    ELSE [kind |-> "ok", exc |-> "none",
          calls |-> <<"get_item_by_title", "extract_credential_fields">>,
          credentials |-> ExtractCredentialFields(answer.item)]

\* generate_jwt, then verify_jwt on the fresh token to read its claims back.
IssueEphemeralToken(secret, defaultTtl, creds, agent, rtype, rname, ttlMinutes, tick) ==
    LET token == GenerateJwt(secret, defaultTtl, agent, creds, rtype, rname, ttlMinutes, tick)
        v == VerifyJwt(secret, token, tick)
    IN IF v.kind # "ok"
       THEN [kind |-> v.kind,
             exc |-> IF v.kind = "expired" THEN "ExpiredSignatureError"
                     ELSE "InvalidTokenError",
             calls |-> <<"generate_jwt", "verify_jwt">>]
       ELSE [kind |-> "ok", exc |-> "none", calls |-> <<"generate_jwt", "verify_jwt">>,
             token |-> token,
             expires_in |-> v.payload.ttl_minutes * SecondsPerMinute,
             resource |-> <<rtype, rname>>,
             issued_at |-> v.payload.iat,
             expires_at |-> v.payload.exp,
             ttl_minutes |-> v.payload.ttl_minutes]

FetchAndIssueToken_IssuesRegardless(secret, defaultTtl, rtype, rname, agent, ttlMinutes, answer, tick) ==
    LET f == FetchCredentials(rtype, rname, answer)
        t == IssueEphemeralToken(secret, defaultTtl,
                                 IF f.kind = "ok" THEN f.credentials ELSE [k \in {} |-> ""],
                                 agent, rtype, rname, ttlMinutes, tick)
    IN [t EXCEPT !.calls = f.calls \o @]

FetchAndIssueToken(secret, defaultTtl, rtype, rname, agent, ttlMinutes, answer, tick) ==
    LET f == FetchCredentials(rtype, rname, answer)
    IN IF f.kind # "ok" THEN f
       ELSE LET t == IssueEphemeralToken(secret, defaultTtl, f.credentials, agent,
                                         rtype, rname, ttlMinutes, tick)
            IN [t EXCEPT !.calls = f.calls \o @]

GetCredentialsFromToken(secret, token, tick) == VerifyAndDecrypt(secret, token, tick)

\* is_token_expired: verify_jwt with both of its exceptions turned into True.
IsTokenExpired(secret, token, tick) ==
    LET v == VerifyJwt(secret, token, tick)
    IN IF v.kind = "ok" THEN FALSE
       ELSE IF v.kind = "expired" THEN TRUE
       ELSE TRUE

None == [kind |-> "None"]

\* get_token_expiration: jwt.decode with verify_exp off, so the signature is
\* still checked; any failure, and a missing or zero exp claim, give None.
GetTokenExpiration(secret, token) ==
    IF token.kind # "jwt" THEN None
    ELSE IF ~SignatureDecodes(token.sigdiff) THEN None
    ELSE IF \/ token.signer # secret
            \/ token.over # token.claims
            \/ ~DecodedSignatureMatches(token.sigdiff) THEN None
    ELSE IF token.claims.exp = 0 THEN None
    ELSE [kind |-> "datetime", tick |-> token.claims.exp * TicksPerSecond]

\* Mutant: an expired token is answered like an invalid one.
GetTimeUntilExpiry_NoneWhenExpired(secret, token, tick) ==
    LET exp == GetTokenExpiration(secret, token)
    IN IF exp = None THEN None
       ELSE IF exp.tick <= tick THEN None
       ELSE [kind |-> "timedelta", ticks |-> exp.tick - tick]

GetTimeUntilExpiry(secret, token, tick) ==
    LET exp == GetTokenExpiration(secret, token)
    IN IF exp = None THEN None
       ELSE IF exp.tick <= tick THEN [kind |-> "timedelta", ticks |-> 0]
       ELSE [kind |-> "timedelta", ticks |-> exp.tick - tick]

\* validate_token: verify_jwt, then the whole seconds left; a None or zero
\* timedelta is falsy and reported as 0.
ValidateToken(secret, token, tick) ==
    LET v == VerifyJwt(secret, token, tick)
        left == GetTimeUntilExpiry(secret, token, tick)
    IN IF v.kind # "ok" THEN [kind |-> v.kind, calls |-> <<"verify_jwt">>]
       ELSE [kind |-> "ok", calls |-> <<"verify_jwt", "get_time_until_expiry">>,
             valid |-> TRUE,
             agent_id |-> v.payload.sub,
             resource_type |-> v.payload.resource_type,
             resource_name |-> v.payload.resource_name,
             issued_at |-> v.payload.iat,
             expires_at |-> v.payload.exp,
             time_remaining |-> IF left = None \/ left.ticks = 0 THEN 0
                                ELSE left.ticks \div TicksPerSecond]

\* ------------------------------------------------------------------------
\* Audit sink
\* ------------------------------------------------------------------------
\* deque(maxlen=QueueMaxLen).append: a full queue drops its oldest element.
DequeAppend_Unbounded(q, e) == Append(q, e)

DequeAppend_DropsNewest(q, e) ==
    IF Len(q) >= QueueMaxLen THEN Append(SubSeq(q, 1, Len(q) - 1), e)
    ELSE Append(q, e)

DequeAppend(q, e) ==
    IF Len(q) >= QueueMaxLen THEN Append(Tail(q), e) ELSE Append(q, e)

CreateEventPayload(id, eventType, protocol, agent, resource, outcome) ==
    [id |-> id, event_type |-> eventType, protocol |-> protocol, agent_id |-> agent,
     resource |-> resource, outcome |-> outcome,
     source |-> "1password-credential-broker"]

\* _log_event_locally: nothing is written with the fallback disabled; an
\* error of open/write is caught and logged.
LogEventLocally_OnlyWhenNoApi(config, log, event, fileOk) ==
    IF ~config.local_fallback \/ config.api_enabled THEN [log |-> log, raised |-> FALSE]
    ELSE IF fileOk THEN [log |-> Append(log, event), raised |-> FALSE]
    ELSE [log |-> log, raised |-> FALSE]

LogEventLocally_Unguarded(config, log, event, fileOk) ==
    IF ~config.local_fallback THEN [log |-> log, raised |-> FALSE]
    ELSE IF fileOk THEN [log |-> Append(log, event), raised |-> FALSE]
    ELSE [log |-> log, raised |-> TRUE]

LogEventLocally(config, log, event, fileOk) ==
    IF ~config.local_fallback THEN [log |-> log, raised |-> FALSE]
    ELSE IF fileOk THEN [log |-> Append(log, event), raised |-> FALSE]
    ELSE [log |-> log, raised |-> FALSE]

InLog(log, event) == \E i \in 1..Len(log) : log[i] = event

SuccessStatuses == {200, 201, 202}
Statuses == {200, 201, 202, 204, 400, 500}

NoFront == [pc |-> "none", served |-> 0]
NoCalls == <<>>

DefaultConfig == [api_enabled |-> TRUE, local_fallback |-> TRUE, max_retries |-> MaxRetries]

NoSweep == [pc |-> "idle"]

NoSessions == [id \in {} |-> 0]

\* SessionManager.__init__, and no sweep of the retry queue under way.
\* The event loop with no coroutine of the session manager started and
\* asyncio.Lock() free.
IdleLoop == [running |-> 0, lock |-> 0, tasks |-> <<>>]

SessionIdle ==
    /\ sweep = NoSweep
    /\ accepted = <<>>
    /\ sessions = NoSessions
    /\ sessionCalls = <<>>
    /\ nextUuid = 1
    /\ loop = IdleLoop

AuditIdle ==
    /\ cfg = DefaultConfig
    /\ localLog = <<>>
    /\ failedQueue = <<>>
    /\ inflight = NoCalls
    /\ nextEventId = 1
    /\ front = NoFront
    /\ SessionIdle

Without(calls, id) == [i \in DOMAIN calls \ {id} |-> calls[i]]

\* What a finished log call hands back to the code that awaited it.
CallOutcome(call, kind, queued, delivered) ==
    [op |-> "log_credential_access", kind |-> kind, event |-> call.event,
     posts |-> call.posts, sleeps |-> call.sleeps, queued |-> queued,
     delivered |-> delivered, file_ok |-> call.file_ok,
     local_first |-> call.local_first]

\* ------------------------------------------------------------------------
\* Actions of the token codec
\* ------------------------------------------------------------------------
NoRequest == [kind |-> "none"]

Init ==
    /\ AuditIdle
    /\ now = 0
    /\ held = NoToken
    /\ request = NoRequest
    /\ result = Idle

\* The wall clock advances; the outcome of a call belongs to the instant
\* the call was made at.
Tick ==
    /\ UNCHANGED auditVars
    /\ now < MaxNow
    /\ now' = now + 1
    /\ result' = Idle
    /\ UNCHANGED <<held, request>>

DoGenerateJwt(agent, creds, rtype, rname, ttl) ==
    /\ UNCHANGED auditVars
    /\ held = NoToken
    /\ now <= MaxIssueTick
    /\ held' = GenerateJwt(BrokerSecret, DefaultTTL, agent, creds, rtype, rname, ttl, now)
    /\ request' = [kind |-> "generate_jwt", agent_id |-> agent, credentials |-> creds,
                   resource_type |-> rtype, resource_name |-> rname,
                   ttl_minutes |-> ttl, at |-> now]
    /\ result' = [op |-> "generate_jwt", kind |-> "ok"]
    /\ UNCHANGED now

\* Mutant: only the token of the latest issuance is accepted.
DoVerifyJwt_LatestOnly ==
    /\ UNCHANGED auditVars
    /\ held # NoToken
    /\ result' = [op |-> "verify_jwt"]
                    @@ IF front.pc # "none" /\ front.token \notin {NoToken, held}
                       THEN [kind |-> "invalid"]
                       ELSE VerifyJwt(BrokerSecret, held, now)
    /\ UNCHANGED <<now, held, request>>

DoVerifyJwt ==
    /\ UNCHANGED auditVars
    /\ held # NoToken
    /\ result' = [op |-> "verify_jwt"] @@ VerifyJwt(BrokerSecret, held, now)
    /\ UNCHANGED <<now, held, request>>

\* Token lifecycle: one token, every ttl of the permitted range, the clock
\* at tick resolution.
NextLifecycle ==
    \/ Tick
    \/ \E ttl \in MinTTL..MaxTTL :
          DoGenerateJwt("agent-1", [username |-> "admin", password |-> "s3cret"],
                        "database", "prod-db", ttl)
    \/ DoVerifyJwt

SpecLifecycle == Init /\ [][NextLifecycle]_vars

\* ------------------------------------------------------------------------
\* Codec and issuance service: the clock moves by whole minutes from a
\* start that may lie inside a second.
\* ------------------------------------------------------------------------
TTLInputs == {-1, 0, 1, 5, 15, 16}

\* ttl_minutes: Optional[int] = None. A ttl that is not given reaches
\* generate_jwt as None, which "ttl_minutes or default" treats like 0.
OptionalTTLs ==
    { [given |-> TRUE, minutes |-> t] : t \in TTLInputs }
    \cup { [given |-> FALSE, minutes |-> 0] }
TypeInputs == {"database", "api", "bogus"}
RoundTripMaps ==
    CredMaps \cup { ExtractCredentialFields(it) : it \in VaultItems("prod-db") }

\* Tokens a holder of key material can present without asking the broker:
\* a signed token with no credentials claim, a signed token whose payload was
\* encrypted under another key, a token of another manager, and garbage.
ForgedTokens(tick) ==
    LET base == [sub |-> "agent-1", credentials |-> NoClaim,
                 resource_type |-> "database", resource_name |-> "prod-db",
                 iat |-> NumericDate(tick),
                 exp |-> NumericDate(tick + DefaultTTL * TicksPerMinute),
                 iss |-> "1password-credential-broker", ttl_minutes |-> DefaultTTL]
        foreign == [base EXCEPT !.credentials =
                        EncryptPayload("K2", [username |-> "admin", password |-> "s3cret"])]
    IN { JwtEncode(base, BrokerSecret),
         JwtEncode(foreign, BrokerSecret),
         JwtEncode(foreign, "K2"),
         [kind |-> "garbage"] }

InitCodec ==
    /\ AuditIdle
    /\ now \in 0..MaxIssueTick
    /\ held = NoToken
    /\ request = NoRequest
    /\ result = Idle

AdvanceMinute ==
    /\ UNCHANGED auditVars
    /\ now + TicksPerMinute <= MaxNow
    /\ now' = now + TicksPerMinute
    /\ result' = Idle
    /\ UNCHANGED <<held, request>>

DoFetchCredentials(rtype, rname, answer) ==
    /\ UNCHANGED auditVars
    /\ held = NoToken
    /\ now <= MaxIssueTick
    /\ result' = [op |-> "fetch_credentials"] @@ FetchCredentials(rtype, rname, answer)
    /\ request' = [kind |-> "fetch_credentials", resource_type |-> rtype,
                   resource_name |-> rname, answer |-> answer, at |-> now]
    /\ UNCHANGED <<now, held>>

DoFetchAndIssue(rtype, rname, agent, ttl, answer) ==
    /\ UNCHANGED auditVars
    /\ held = NoToken
    /\ now <= MaxIssueTick
    /\ LET r == FetchAndIssueToken(BrokerSecret, DefaultTTL, rtype, rname, agent,
                                   ttl.minutes, answer, now)
       IN /\ held' = IF r.kind = "ok" THEN r.token ELSE NoToken
          /\ result' = [op |-> "fetch_and_issue_token"] @@ r
    /\ request' = [kind |-> "fetch_and_issue", agent_id |-> agent,
                   resource_type |-> rtype, resource_name |-> rname,
                   ttl_given |-> ttl.given, ttl_minutes |-> ttl.minutes,
                   answer |-> answer, at |-> now]
    /\ UNCHANGED now

DoPresentForged(token) ==
    /\ UNCHANGED auditVars
    /\ held = NoToken
    /\ now <= MaxIssueTick
    /\ held' = token
    /\ request' = [kind |-> "forged"]
    /\ result' = Idle
    /\ UNCHANGED now

DoVerifyAndDecrypt ==
    /\ UNCHANGED auditVars
    /\ held # NoToken
    /\ result' = [op |-> "verify_and_decrypt"] @@ VerifyAndDecrypt(BrokerSecret, held, now)
    /\ UNCHANGED <<now, held, request>>

\* vaultUp: whether the vault would answer at this moment.
DoGetCredentialsFromToken(vaultUp) ==
    /\ UNCHANGED auditVars
    /\ held # NoToken
    /\ result' = [op |-> "get_credentials_from_token", vault_up |-> vaultUp]
                     @@ GetCredentialsFromToken(BrokerSecret, held, now)
    /\ UNCHANGED <<now, held, request>>

\* Mutant: the token is only served while the vault answers.
DoValidateToken_NeedsVault(vaultUp) ==
    /\ UNCHANGED auditVars
    /\ held # NoToken
    /\ result' = [op |-> "validate_token", vault_up |-> vaultUp]
                     @@ IF vaultUp THEN ValidateToken(BrokerSecret, held, now)
                        ELSE [kind |-> "vault_error",
                              calls |-> <<"verify_jwt", "get_item_by_title">>]
    /\ UNCHANGED <<now, held, request>>

DoValidateToken(vaultUp) ==
    /\ UNCHANGED auditVars
    /\ held # NoToken
    /\ result' = [op |-> "validate_token", vault_up |-> vaultUp]
                     @@ ValidateToken(BrokerSecret, held, now)
    /\ UNCHANGED <<now, held, request>>

DoIsTokenExpired ==
    /\ UNCHANGED auditVars
    /\ held # NoToken
    /\ result' = [op |-> "is_token_expired", kind |-> "returned",
                  value |-> IsTokenExpired(BrokerSecret, held, now)]
    /\ UNCHANGED <<now, held, request>>

DoGetTimeUntilExpiry ==
    /\ UNCHANGED auditVars
    /\ held # NoToken
    /\ result' = [op |-> "get_time_until_expiry", kind |-> "returned",
                  value |-> GetTimeUntilExpiry(BrokerSecret, held, now)]
    /\ UNCHANGED <<now, held, request>>

NextCodec ==
    \/ AdvanceMinute
    \/ \E rtype \in TypeInputs, rname \in ResourceNames, agent \in Agents,
          ttl \in OptionalTTLs :
          \E answer \in VaultAnswers(rname) :
             DoFetchAndIssue(rtype, rname, agent, ttl, answer)
    \/ \E token \in ForgedTokens(now) : DoPresentForged(token)
    \/ DoVerifyJwt
    \/ DoVerifyAndDecrypt
    \/ \E vaultUp \in BOOLEAN : DoGetCredentialsFromToken(vaultUp)
    \/ \E vaultUp \in BOOLEAN : DoValidateToken(vaultUp)
    \/ DoIsTokenExpired
    \/ DoGetTimeUntilExpiry
    \/ \E rtype \in TypeInputs, rname \in ResourceNames :
          \E answer \in VaultAnswers(rname) : DoFetchCredentials(rtype, rname, answer)

SpecCodec == InitCodec /\ [][NextCodec]_vars

\* ------------------------------------------------------------------------
\* Encryption layer on its own: a credential map, a manager that encrypts
\* and a manager that decrypts, drawn at the start.
\* ------------------------------------------------------------------------
NoCiphertext == [kind |-> "none", key |-> <<>>, msg |-> {}]

InitCrypto ==
    /\ AuditIdle
    /\ now = 0
    /\ held = NoCiphertext
    /\ \E data \in RoundTripMaps, k1 \in Secrets, k2 \in Secrets :
          request = [kind |-> "crypto", data |-> data,
                     enc_secret |-> k1, dec_secret |-> k2]
    /\ result = Idle

DoEncryptPayload ==
    /\ UNCHANGED auditVars
    /\ held = NoCiphertext
    /\ held' = EncryptPayload(request.enc_secret, request.data)
    /\ result' = [op |-> "encrypt_payload", kind |-> "ok"]
    /\ UNCHANGED <<now, request>>

\* The ciphertext is damaged on its way back.
DoCorruptCiphertext ==
    /\ UNCHANGED auditVars
    /\ held.kind = "fernet"
    /\ held' = GarbageCiphertext
    /\ result' = Idle
    /\ UNCHANGED <<now, request>>

DoDecryptPayload ==
    /\ UNCHANGED auditVars
    /\ held # NoCiphertext
    /\ result' = [op |-> "decrypt_payload", input |-> held.kind]
                     @@ DecryptPayload(request.dec_secret, held)
    /\ UNCHANGED <<now, held, request>>

NextCrypto ==
    \/ DoEncryptPayload
    \/ DoCorruptCiphertext
    \/ DoDecryptPayload

SpecCrypto == InitCrypto /\ [][NextCrypto]_vars

\* ------------------------------------------------------------------------
\* Tampering with the signature segment of an issued token: one character
\* is replaced, by another character of the alphabet (a non-zero difference)
\* or by a character outside it.
\* ------------------------------------------------------------------------
FlipDiffs == {1, 2, 3, 4, 63, BadChar}
TamperTTLs == {MinTTL, MaxTTL}

DoTamper(pos, d) ==
    /\ UNCHANGED auditVars
    /\ held.kind = "jwt"
    /\ held.sigdiff = GenuineSignature
    /\ held' = [held EXCEPT !.sigdiff[pos] = d]
    /\ result' = Idle
    /\ UNCHANGED <<now, request>>

NextTamper ==
    \/ AdvanceMinute
    \/ \E ttl \in TamperTTLs :
          DoGenerateJwt("agent-1", [username |-> "admin", password |-> "s3cret"],
                        "database", "prod-db", ttl)
    \/ \E pos \in 1..SigChars, d \in FlipDiffs : DoTamper(pos, d)
    \/ DoVerifyJwt

SpecTamper == InitCodec /\ [][NextTamper]_vars

\* ------------------------------------------------------------------------
\* Character strings: the operations of Python's str the code relies on.
\* ------------------------------------------------------------------------
UpperAlphabet == "ABCDEFGHIJKLMNOPQRSTUVWXYZ"
LowerAlphabet == "abcdefghijklmnopqrstuvwxyz"
DigitAlphabet == "0123456789"

CharAt(s, i) == SubSeq(s, i, i)

Tail1(s) == SubSeq(s, 2, Len(s))

IndexIn(alphabet, c) ==
    IF \E i \in 1..Len(alphabet) : CharAt(alphabet, i) = c
    THEN CHOOSE i \in 1..Len(alphabet) : CharAt(alphabet, i) = c
    ELSE 0

RECURSIVE Lower(_)
Lower(s) ==
    IF s = "" THEN ""
    ELSE LET c == CharAt(s, 1)
             i == IndexIn(UpperAlphabet, c)
         IN (IF i = 0 THEN c ELSE CharAt(LowerAlphabet, i)) \o Lower(Tail1(s))

IsSpace(c) == c \in {" ", "\n", "\t"}

IsDigit(c) == IndexIn(DigitAlphabet, c) # 0

\* The words of a text: its maximal runs of non-whitespace characters.
RECURSIVE SplitFrom(_, _, _)
SplitFrom(s, word, acc) ==
    IF s = ""
    THEN IF word = "" THEN acc ELSE Append(acc, word)
    ELSE IF IsSpace(CharAt(s, 1))
    THEN SplitFrom(Tail1(s), "", IF word = "" THEN acc ELSE Append(acc, word))
    ELSE SplitFrom(Tail1(s), word \o CharAt(s, 1), acc)

Split(s) == SplitFrom(s, "", <<>>)

RECURSIVE LStrip(_)
LStrip(s) == IF s # "" /\ IsSpace(CharAt(s, 1)) THEN LStrip(Tail1(s)) ELSE s

RECURSIVE RStrip(_)
RStrip(s) ==
    IF s # "" /\ IsSpace(CharAt(s, Len(s))) THEN RStrip(SubSeq(s, 1, Len(s) - 1)) ELSE s

Strip(s) == RStrip(LStrip(s))

\* Whether t occurs in s.
Contains(s, t) ==
    \E i \in 1..(Len(s) - Len(t) + 1) : SubSeq(s, i, i + Len(t) - 1) = t

\* ------------------------------------------------------------------------
\* ACP session store: SessionManager. Its methods take the lock around code
\* that never suspends, so each call runs to its end in one step.
\* ------------------------------------------------------------------------
UuidPool == <<"session-u1", "session-u2", "session-u3">>

NoSessionId == ""

NewSession(id, tick) ==
    [session_id |-> id, created_at |-> tick, last_activity |-> tick,
     interactions |-> <<>>]

CreateSession_Overwrites(ss, session_id, uuid, tick) ==
    LET new_session_id == IF session_id # NoSessionId THEN session_id ELSE uuid
    IN [sessions |-> (new_session_id :> NewSession(new_session_id, tick)) @@ ss,
        id |-> new_session_id]

\* create_session: an id that is present is handed back untouched; any other
\* id (or a generated one when none is given) gets a fresh, empty session.
CreateSession(ss, session_id, uuid, tick) ==
    IF session_id # NoSessionId /\ session_id \in DOMAIN ss
    THEN [sessions |-> ss, id |-> session_id]
    ELSE LET new_session_id == IF session_id # NoSessionId THEN session_id ELSE uuid
         IN [sessions |-> (new_session_id :> NewSession(new_session_id, tick)) @@ ss,
             id |-> new_session_id]

\* Messages: a list of parts, each a content string with its MIME type.
Part(content, content_type) == [content |-> content, content_type |-> content_type]

Message(parts) == [parts |-> parts]

SummaryMaxLen == 100

NoTextContent == "No text content"

\* The parts of all messages, in order.
RECURSIVE AllParts(_)
AllParts(messages) ==
    IF messages = <<>> THEN <<>>
    ELSE messages[1].parts \o AllParts(Tail(messages))

\* content[:100] + "..." when the content is longer than 100 characters.
Truncate(content) ==
    IF Len(content) > SummaryMaxLen
    THEN SubSeq(content, 1, SummaryMaxLen) \o "..."
    ELSE content

ExtractSummary_FirstPart(messages) ==
    IF messages = <<>> THEN ""
    ELSE IF AllParts(messages) = <<>> THEN NoTextContent
    ELSE Truncate(Strip(AllParts(messages)[1].content))

\* _extract_summary: the first text/plain part with content, stripped and
\* truncated; a fixed string when no message has one.
ExtractSummary(messages) ==
    IF messages = <<>> THEN ""
    ELSE LET parts == AllParts(messages)
             texts == { i \in 1..Len(parts) :
                          parts[i].content_type = "text/plain" /\ parts[i].content # "" }
         IN IF texts = {} THEN NoTextContent
            ELSE Truncate(Strip(parts[CHOOSE i \in texts : \A j \in texts : i <= j].content))

Interaction(run_id, input_messages, output_messages, status, tick) ==
    [timestamp |-> tick, run_id |-> run_id,
     input_summary |-> ExtractSummary(input_messages),
     output_summary |-> ExtractSummary(output_messages),
     status |-> status]

AddInteraction_Recreates(ss, session_id, run_id, input_messages, output_messages, status, uuid, tick) ==
    [(session_id :> NewSession(session_id, tick)) @@ ss
        EXCEPT ![session_id].interactions =
                   Append(@, Interaction(run_id, input_messages, output_messages, status, tick))]

AddInteraction_NoAutoCreate(ss, session_id, run_id, input_messages, output_messages, status, uuid, tick) ==
    IF session_id \notin DOMAIN ss THEN ss
    ELSE [ss EXCEPT ![session_id].interactions =
                        Append(@, Interaction(run_id, input_messages, output_messages,
                                              status, tick)),
                    ![session_id].last_activity = tick]

\* add_interaction for a non-empty id: the session is created first when it
\* is missing, then the interaction is appended and last_activity updated.
AddInteraction(ss, session_id, run_id, input_messages, output_messages, status, uuid, tick) ==
    LET s1 == IF session_id \notin DOMAIN ss
              THEN CreateSession(ss, session_id, uuid, tick).sessions
              ELSE ss
    IN [s1 EXCEPT ![session_id].interactions =
                      Append(@, Interaction(run_id, input_messages, output_messages,
                                            status, tick)),
                  ![session_id].last_activity = tick]

GetSession_Vivifies(ss, session_id, tick) ==
    IF session_id \in DOMAIN ss
    THEN [sessions |-> ss, found |-> TRUE, session |-> ss[session_id]]
    ELSE [sessions |-> (session_id :> NewSession(session_id, tick)) @@ ss,
          found |-> TRUE, session |-> NewSession(session_id, tick)]

\* get_session: sessions.get(session_id), None when absent.
GetSession(ss, session_id, tick) ==
    IF session_id \in DOMAIN ss
    THEN [sessions |-> ss, found |-> TRUE, session |-> ss[session_id]]
    ELSE [sessions |-> ss, found |-> FALSE]

\* ------------------------------------------------------------------------
\* Audit sink: log_credential_access and _post_event_to_api, one action per
\* stretch of code between two suspension points (the POST, the backoff
\* sleep).
\* ------------------------------------------------------------------------
tokenVars == <<now, held, request>>

\* What the awaiting front-end handler does once its log call is back: it
\* sends the response it has prepared, or the exception travels on.
FrontContinue(f, out) ==
    [f EXCEPT !.pc = "done",
              !.audit = out,
              !.response = IF out.kind = "raised" THEN "exception" ELSE f.pending]

\* The log call is back at its caller.
Return(caller, f, out) ==
    /\ result' = out
    /\ front' = IF caller = "direct" THEN f ELSE FrontContinue(f, out)

\* run_agent records the interaction once its log call is back; the other
\* callers keep no sessions.
ContinueSessions(caller, f, out) ==
    IF caller = "front" /\ f.protocol = "ACP" /\ out.kind = "returned"
    THEN /\ sessions' = AddInteraction(sessions, f.session_id, f.run_id,
                                       f.input, f.output, f.pending,
                                       UuidPool[nextUuid], now)
         /\ sessionCalls' = Append(sessionCalls,
                [op |-> "add_interaction", session_id |-> f.session_id,
                 run_id |-> f.run_id])
         /\ UNCHANGED <<nextUuid, loop>>
    ELSE UNCHANGED sessionVars

Finish(id, out) ==
    /\ inflight' = Without(inflight, id)
    /\ Return(inflight[id].caller, front, out)
    /\ ContinueSessions(inflight[id].caller, front, out)

\* log_credential_access up to its first suspension: the event is built,
\* written locally, and the first POST is sent; without a configured
\* collector _post_event_to_api returns False without suspending, the event
\* is queued and the caller goes on in the same step.
BeginLog(caller, f, protocol, agent, resource, outcome, fileOk) ==
    LET id == nextEventId
        event == CreateEventPayload(id, "credential_access", protocol, agent,
                                    resource, outcome)
        w == LogEventLocally(cfg, localLog, event, fileOk)
        call == [caller |-> caller, event |-> event, pc |-> "posting",
                 retry_count |-> 0, posts |-> 0, sleeps |-> <<>>,
                 file_ok |-> fileOk, local_first |-> InLog(w.log, event)]
    IN /\ nextEventId' = id + 1
       /\ localLog' = w.log
       /\ IF w.raised
          THEN /\ Return(caller, f, CallOutcome(call, "raised", FALSE, FALSE))
               /\ UNCHANGED <<inflight, failedQueue>>
          ELSE IF ~cfg.api_enabled
          THEN /\ Return(caller, f, CallOutcome(call, "returned", TRUE, FALSE))
               /\ failedQueue' = DequeAppend(failedQueue, event)
               /\ UNCHANGED inflight
          ELSE /\ inflight' = inflight @@ (id :> [call EXCEPT !.posts = 1])
               /\ front' = f
               /\ UNCHANGED <<result, failedQueue>>

DoLogCredentialAccess(protocol, agent, resource, outcome, fileOk) ==
    /\ nextEventId <= MaxLogCalls
    /\ Cardinality(DOMAIN inflight) < MaxInflight
    /\ BeginLog("direct", front, protocol, agent, resource, outcome, fileOk)
    /\ UNCHANGED <<tokenVars, cfg, sweep, accepted, sessionVars>>

RECURSIVE Requeue_Reversed(_, _)
Requeue_Reversed(q, events) ==
    IF events = <<>> THEN q
    ELSE DequeAppend(Requeue_Reversed(q, Tail(events)), Head(events))

\* Mutant: the events that failed again are not put back.
Requeue_Nothing(q, events) == q

RECURSIVE Requeue(_, _)
Requeue(q, events) ==
    IF events = <<>> THEN q ELSE Requeue(DequeAppend(q, Head(events)), Tail(events))

\* The POST of a sweep, for the event just taken from the left of the queue.
SweepCall(event) ==
    [caller |-> "sweep", event |-> event, pc |-> "posting", retry_count |-> 0,
     posts |-> 1, sleeps |-> <<>>]

SweepResult(s) ==
    [op |-> "retry_failed_events", kind |-> "returned", returned |-> s.successful,
     before |-> s.before, taken |-> s.taken, failed_again |-> s.failed_again]

\* retry_failed_events from the answer to one POST on: count or set aside
\* the event, then take the next one, or, the queue being empty, put the
\* events that failed again back and return the count.
SweepContinue(id, delivered) ==
    LET s1 == [sweep EXCEPT
                 !.successful = IF delivered THEN @ + 1 ELSE @,
                 !.failed_again = IF delivered THEN @ ELSE Append(@, inflight[id].event)]
    IN IF failedQueue = <<>>
       THEN /\ failedQueue' = Requeue(<<>>, s1.failed_again)
            /\ sweep' = NoSweep
            /\ result' = SweepResult(s1)
            /\ inflight' = Without(inflight, id)
       ELSE /\ failedQueue' = Tail(failedQueue)
            /\ sweep' = [s1 EXCEPT !.taken = Append(@, Head(failedQueue))]
            /\ inflight' = Without(inflight, id)
                             @@ (Head(failedQueue).id :> SweepCall(Head(failedQueue)))
            /\ UNCHANGED result

\* _post_event_to_api has returned True or False to the code awaiting it:
\* a log call queues the event it could not deliver, a sweep goes on.
Complete(id, delivered) ==
    IF inflight[id].caller = "sweep"
    THEN /\ SweepContinue(id, delivered)
         /\ UNCHANGED <<front, sessionVars>>
    ELSE /\ Finish(id, CallOutcome(inflight[id], "returned", ~delivered, delivered))
         /\ failedQueue' = IF delivered THEN failedQueue
                           ELSE DequeAppend(failedQueue, inflight[id].event)
         /\ UNCHANGED sweep

\* The collector answers the POST with a status code.
PostResponds(id, status) ==
    /\ id \in DOMAIN inflight
    /\ inflight[id].pc = "posting"
    /\ Complete(id, status \in SuccessStatuses)
    /\ accepted' = IF status \in SuccessStatuses
                   THEN Append(accepted, inflight[id].event.id) ELSE accepted
    /\ UNCHANGED <<tokenVars, cfg, localLog, nextEventId>>

\* The POST raises (connection error, timeout): back off and retry while
\* retries are left, else give up.
\* Mutant: one retry more than max_retries.
PostRaises_OneMoreRetry(id) ==
    /\ id \in DOMAIN inflight
    /\ inflight[id].pc = "posting"
    /\ IF inflight[id].retry_count <= cfg.max_retries
       THEN /\ inflight' = [inflight EXCEPT
                    ![id].pc = "sleeping",
                    ![id].sleeps = Append(@, RetryDelay * (2 ^ inflight[id].retry_count))]
            /\ UNCHANGED <<result, front, failedQueue, sweep, sessionVars>>
       ELSE Complete(id, FALSE)
    /\ UNCHANGED <<tokenVars, cfg, localLog, nextEventId, accepted>>

PostRaises(id) ==
    /\ id \in DOMAIN inflight
    /\ inflight[id].pc = "posting"
    /\ IF inflight[id].retry_count < cfg.max_retries
       THEN /\ inflight' = [inflight EXCEPT
                    ![id].pc = "sleeping",
                    ![id].sleeps = Append(@, RetryDelay * (2 ^ inflight[id].retry_count))]
            /\ UNCHANGED <<result, front, failedQueue, sweep, sessionVars>>
       ELSE Complete(id, FALSE)
    /\ UNCHANGED <<tokenVars, cfg, localLog, nextEventId, accepted>>

\* The backoff sleep is over: the recursive call posts again.
SleepEnds(id) ==
    /\ id \in DOMAIN inflight
    /\ inflight[id].pc = "sleeping"
    /\ inflight' = [inflight EXCEPT ![id].pc = "posting",
                                    ![id].retry_count = @ + 1,
                                    ![id].posts = @ + 1]
    /\ UNCHANGED <<tokenVars, result, cfg, localLog, failedQueue, nextEventId, front,
                   sweep, accepted, sessionVars>>

\* retry_failed_events up to its first suspension. Without a configured
\* collector no POST suspends: every event fails again and is put back.
DoRetryFailedEvents ==
    /\ sweep = NoSweep
    /\ LET s0 == [pc |-> "sweeping", successful |-> 0, failed_again |-> <<>>,
                  before |-> failedQueue, taken |-> <<>>]
       IN IF failedQueue = <<>>
          THEN /\ result' = [op |-> "retry_failed_events", kind |-> "returned",
                             returned |-> 0, before |-> <<>>, taken |-> <<>>,
                             failed_again |-> <<>>]
               /\ UNCHANGED <<failedQueue, sweep, inflight>>
          ELSE IF ~cfg.api_enabled
          THEN /\ failedQueue' = Requeue(<<>>, failedQueue)
               /\ result' = SweepResult([s0 EXCEPT !.taken = failedQueue,
                                                   !.failed_again = failedQueue])
               /\ UNCHANGED <<sweep, inflight>>
          ELSE /\ failedQueue' = Tail(failedQueue)
               /\ sweep' = [s0 EXCEPT !.taken = <<Head(failedQueue)>>]
               /\ inflight' = inflight @@ (Head(failedQueue).id :> SweepCall(Head(failedQueue)))
               /\ result' = Idle
    /\ UNCHANGED <<tokenVars, cfg, localLog, nextEventId, front, accepted, sessionVars>>

Configs ==
    [api_enabled : BOOLEAN, local_fallback : BOOLEAN, max_retries : 0..MaxRetriesInput]

InitAudit ==
    /\ now = 0
    /\ held = NoToken
    /\ request = NoRequest
    /\ result = Idle
    /\ cfg \in Configs
    /\ localLog = <<>>
    /\ failedQueue = <<>>
    /\ inflight = NoCalls
    /\ nextEventId = 1
    /\ front = NoFront
    /\ SessionIdle

NextAudit ==
    \/ \E fileOk \in BOOLEAN :
          DoLogCredentialAccess("MCP", "agent-1", <<"database", "prod-db">>, "success", fileOk)
    \/ \E id \in DOMAIN inflight, status \in Statuses : PostResponds(id, status)
    \/ \E id \in DOMAIN inflight : PostRaises(id)
    \/ \E id \in DOMAIN inflight : SleepEnds(id)
    \/ DoRetryFailedEvents

SpecAudit == InitAudit /\ [][NextAudit]_vars

\* The HTTP client answers or times out (timeout=10.0) and asyncio.sleep
\* returns: every suspended delivery is resumed.
AwaitResumes(id) ==
    \/ \E status \in Statuses : PostResponds(id, status)
    \/ PostRaises(id)
    \/ SleepEnds(id)

\* Log calls made one after another, each with its retries, while a sweep
\* may be under way.
NextDelivery ==
    \/ /\ \A id \in DOMAIN inflight : inflight[id].caller = "sweep"
       /\ DoLogCredentialAccess("MCP", "agent-1", <<"database", "prod-db">>, "success", TRUE)
    \/ \E id \in DOMAIN inflight : AwaitResumes(id)
    \/ DoRetryFailedEvents

SpecDelivery ==
    /\ InitAudit
    /\ [][NextDelivery]_vars
    /\ \A id \in 1..MaxLogCalls : WF_vars(AwaitResumes(id))

\* The loop of test_queue_max_size: one log call after the other against a
\* collector that never accepts an event.
QueueMaxSizeLoop(agent) ==
    /\ nextEventId <= MaxQueueEvents
    /\ inflight = NoCalls
    /\ BeginLog("direct", front, "mcp", agent, <<"test", "test">>, "success", TRUE)
    /\ UNCHANGED <<tokenVars, cfg, sweep, accepted, sessionVars>>

InitQueue ==
    /\ now = 0
    /\ held = NoToken
    /\ request = NoRequest
    /\ result = Idle
    /\ cfg \in { c \in Configs : c.max_retries = 0 }
    /\ localLog = <<>>
    /\ failedQueue = <<>>
    /\ inflight = NoCalls
    /\ nextEventId = 1
    /\ front = NoFront
    /\ SessionIdle

NextQueue ==
    \/ QueueMaxSizeLoop("agent-1")
    \/ \E id \in DOMAIN inflight, status \in Statuses \ SuccessStatuses :
          PostResponds(id, status)
    \/ \E id \in DOMAIN inflight : PostRaises(id)

SpecQueue == InitQueue /\ [][NextQueue]_vars

\* The first MaxOverlapped log calls run concurrently, so their deliveries
\* fail in either order; the later calls run one after another until the
\* queue overflows.  A sweep runs once the overlapped calls were made, while
\* their deliveries may still be under way.  The collector accepts events
\* until the overlapped calls and that sweep are over and refuses them from
\* then on.
LogOverlapped(agent) ==
    /\ nextEventId <= MaxOverlapped
    /\ BeginLog("direct", front, "mcp", agent, <<"test", "test">>, "success", TRUE)
    /\ UNCHANGED <<tokenVars, cfg, sweep, accepted, sessionVars>>

SweepOverlapped ==
    /\ nextEventId = MaxOverlapped + 1
    /\ DoRetryFailedEvents

NextOverflow ==
    \/ LogOverlapped("agent-1")
    \/ QueueMaxSizeLoop("agent-1")
    \/ SweepOverlapped
    \/ \E id \in DOMAIN inflight, status \in Statuses :
          /\ status \in SuccessStatuses => nextEventId <= MaxOverlapped + 1
          /\ PostResponds(id, status)
    \/ \E id \in DOMAIN inflight : PostRaises(id)

\* The local fallback log plays no part in the queue and is switched off.
InitOverflow ==
    /\ InitQueue
    /\ ~cfg.local_fallback

SpecOverflow == InitOverflow /\ [][NextOverflow]_vars

\* ------------------------------------------------------------------------
\* Front-ends: the MCP tool handler, the A2A task endpoint and the ACP run
\* endpoint, each up to its audit log call; the response goes out when the
\* log call is back.
\* ------------------------------------------------------------------------
ArgumentsGet(arguments, key, default) ==
    IF key \in DOMAIN arguments THEN arguments[key] ELSE default

FrontTTLs == {-1, 0, 1, 15, 16}

FrontAnswers(rname) ==
    { a \in VaultAnswers(rname) : a.kind = "item" => a.item.id = "item-1" }

WithTTL(base, key) == {base} \cup { base @@ (key :> t) : t \in FrontTTLs }

McpArguments ==
    UNION { WithTTL([resource_type |-> ty, resource_name |-> "prod-db",
                     requesting_agent_id |-> "agent-1"], "ttl_minutes") :
            ty \in {"database", "bogus"} }

CAPABILITY_HANDLERS ==
    [request_database_credentials |-> [resource_type |-> "database", key |-> "database_name"],
     request_api_credentials |-> [resource_type |-> "api", key |-> "api_name"],
     request_ssh_credentials |-> [resource_type |-> "ssh", key |-> "ssh_resource_name"],
     request_generic_secret |-> [resource_type |-> "generic", key |-> "secret_name"]]

NoParameters == [k \in {} |-> ""]

\* A JSON value under duration_minutes: its Python type and, for bool, the
\* integer it is as an int subclass (True is 1, False is 0).
JsonNumber(type, value) == [type |-> type, value |-> value]

A2aDurations == { JsonNumber("int", t) : t \in FrontTTLs }

OtherDurations ==
    { JsonNumber("bool", 1), JsonNumber("bool", 0), JsonNumber("float", 5),
      JsonNumber("NoneType", 0) }

\* isinstance(value, int)
IsInstanceInt(v) == v.type \in {"int", "bool"}

UnknownCapability == "unknown_capability"

A2aParameters(capability) ==
    {NoParameters} \cup
    { (CAPABILITY_HANDLERS[capability].key :> "prod-db") }
    \cup { (CAPABILITY_HANDLERS[capability].key :> "prod-db")
              @@ ("duration_minutes" :> v) : v \in A2aDurations }

\* ------------------------------------------------------------------------
\* Intent parser: IntentParser.parse_intent. A text is a string; the regular
\* expressions are sequences of whitespace-separated elements, so a search
\* is a search over the words of the lower-cased text. re.search is not
\* anchored: the first literal of a pattern may be the tail of a word and the
\* last one the head of a word.
\* ------------------------------------------------------------------------
StartsWith(w, lit) == Len(lit) <= Len(w) /\ SubSeq(w, 1, Len(lit)) = lit

EndsWith(w, lit) == Len(lit) <= Len(w) /\ SubSeq(w, Len(w) - Len(lit) + 1, Len(w)) = lit

\* Pattern elements: a group of alternative literals, or the capture (\S+).
Lit(alts) == [cap |-> FALSE, alts |-> alts]
Cap == [cap |-> TRUE, alts |-> {}]

Cred == {"credential", "credentials", "cred", "creds"}

PATTERNS ==
    [database |->
        << <<Lit({"database"}), Lit(Cred \cup {"access"}), Lit({"for"}), Cap>>,
           <<Lit({"db"}), Lit(Cred \cup {"access"}), Lit({"for"}), Cap>>,
           <<Lit(Cred \cup {"access"}), Lit({"for"}), Lit({"database", "db"}), Cap>>,
           <<Lit({"need"}), Cap, Lit({"database"})>>,
           <<Cap, Lit({"database"}), Lit(Cred)>> >>,
     api |->
        << <<Lit({"api"}), Lit(Cred \cup {"access", "token"}), Lit({"for"}), Cap>>,
           <<Lit(Cred \cup {"access", "token"}), Lit({"for"}), Lit({"api"}), Cap>>,
           <<Lit({"need"}), Cap, Lit({"api"})>>,
           <<Cap, Lit({"api"}), Lit(Cred \cup {"token"})>> >>,
     ssh |->
        << <<Lit({"ssh"}), Lit(Cred \cup {"key", "keys", "access"}), Lit({"for"}), Cap>>,
           <<Lit(Cred \cup {"key", "keys", "access"}), Lit({"for"}), Lit({"ssh"}), Cap>>,
           <<Lit({"need"}), Cap, Lit({"ssh"})>>,
           <<Cap, Lit({"ssh"}), Lit(Cred \cup {"key", "keys"})>> >>]

\* Iteration order of the PATTERNS dict.
TypeOrder_ApiFirst == <<"api", "database", "ssh">>

TypeOrder == <<"database", "api", "ssh">>

generic_patterns_SecretOnly == << <<Lit({"secret"}), Lit({"for"}), Cap>> >>

generic_patterns ==
    << <<Lit({"credential", "credentials"}), Lit({"for"}), Cap>>,
       <<Lit({"cred", "creds"}), Lit({"for"}), Cap>>,
       <<Lit({"access"}), Lit({"to"}), Cap>>,
       <<Lit({"secret"}), Lit({"for"}), Cap>> >>

\* One element against one word: between two \s+ the word must be the
\* literal itself; at the open ends of the pattern only its tail or head.
ElementMatches(e, w, first, last) ==
    \/ e.cap
    \/ \E lit \in e.alts :
          IF first THEN EndsWith(w, lit)
          ELSE IF last THEN StartsWith(w, lit)
          ELSE w = lit

MatchesAt(pattern, words, i) ==
    /\ i + Len(pattern) - 1 <= Len(words)
    /\ \A k \in 1..Len(pattern) :
          ElementMatches(pattern[k], words[i + k - 1], k = 1, k = Len(pattern))

NoMatch == [found |-> FALSE, group |-> ""]

\* re.search: the leftmost match; group(1) is the word under the capture.
Search(pattern, words) ==
    LET hits == { i \in 1..Len(words) : MatchesAt(pattern, words, i) }
    IN IF hits = {} THEN NoMatch
       ELSE LET i == CHOOSE h \in hits : \A g \in hits : h <= g
                k == CHOOSE c \in 1..Len(pattern) : pattern[c].cap
            IN [found |-> TRUE, group |-> words[i + k - 1]]

\* resource_name None.
NoName == ""

\* The first pattern of a list that matches, 0 when none does.
FirstHit(patterns, words) ==
    LET hits == { j \in 1..Len(patterns) : Search(patterns[j], words).found }
    IN IF hits = {} THEN 0 ELSE CHOOSE h \in hits : \A g \in hits : h <= g

\* int() of a run of decimal digits.
RECURSIVE ParseInt(_, _)
ParseInt(digits, acc) ==
    IF digits = "" THEN acc
    ELSE ParseInt(Tail1(digits), acc * 10 + (IndexIn(DigitAlphabet, CharAt(digits, 1)) - 1))

RECURSIVE SkipSpaces(_, _)
SkipSpaces(s, i) ==
    IF i <= Len(s) /\ IsSpace(CharAt(s, i)) THEN SkipSpaces(s, i + 1) ELSE i

RECURSIVE DigitsEnd(_, _)
DigitsEnd(s, i) ==
    IF i <= Len(s) /\ IsDigit(CharAt(s, i)) THEN DigitsEnd(s, i + 1) ELSE i

\* (\d+)\s*(?:minute|min|minutes|mins): the leftmost run of digits that is
\* followed, after optional whitespace, by "min".
DurationMatch(s) ==
    LET starts == { i \in 1..Len(s) :
                      /\ IsDigit(CharAt(s, i))
                      /\ LET j == SkipSpaces(s, DigitsEnd(s, i))
                         IN j + 2 <= Len(s) /\ SubSeq(s, j, j + 2) = "min" }
    IN IF starts = {} THEN [found |-> FALSE, group |-> ""]
       ELSE LET i == CHOOSE h \in starts : \A g \in starts : h <= g
            IN [found |-> TRUE, group |-> SubSeq(s, i, DigitsEnd(s, i) - 1)]

\* duration_minutes: 5 unless a duration is found, then min(N, 15).
ParseDuration(s) ==
    LET duration_match == DurationMatch(s)
        n == ParseInt(duration_match.group, 0)
    IN IF ~duration_match.found THEN DefaultTTL
       ELSE IF n < MaxTTL THEN n ELSE MaxTTL

\* The typed patterns in the order the two nested loops visit them.
Tagged(t) == [j \in 1..Len(PATTERNS[t]) |-> [type |-> t, pattern |-> PATTERNS[t][j]]]

TypedPatterns == Tagged(TypeOrder[1]) \o Tagged(TypeOrder[2]) \o Tagged(TypeOrder[3])

ParseIntent(text) ==
    LET text_lower == Lower(text)
        words == Split(text_lower)
        typed == FirstHit([j \in 1..Len(TypedPatterns) |-> TypedPatterns[j].pattern], words)
        generic == FirstHit(generic_patterns, words)
    IN [resource_type |-> IF typed # 0 THEN TypedPatterns[typed].type ELSE "generic",
        resource_name |-> IF typed # 0
                          THEN Search(TypedPatterns[typed].pattern, words).group
                          ELSE IF generic # 0
                          THEN Search(generic_patterns[generic], words).group
                          ELSE NoName,
        duration_minutes |-> ParseDuration(text_lower),
        original_text |-> text]

\* Texts a client of the natural-language endpoint sends.
Utterances ==
    {"database credentials for prod-db", "Hello, how are you?",
     "database credentials for prod-db for 0 minutes",
     "database credentials for prod-db for 15 minutes",
     "database credentials for prod-db for 16 minutes"}

Serving(protocol, r, pending) ==
    [pc |-> "auditing", served |-> front.served + 1, protocol |-> protocol,
     token |-> IF r.kind = "ok" THEN r.token ELSE NoToken,
     pending |-> pending, response |-> "pending", audit |-> Idle,
     session_id |-> NoSessionId, run_id |-> front.served + 1,
     core |-> r.kind, calls |-> r.calls, first_event |-> nextEventId]

\* The metadata of the handler's audit event: the ttl given as argument on
\* success, no ttl after a failure.
McpMetadata(r, ttl_minutes) ==
    IF r.kind = "ok"
    THEN [action |-> "credential_retrieval", ttl_minutes |-> ttl_minutes]
    ELSE [action |-> "credential_retrieval"]

FrontReady ==
    /\ front.pc \in {"none", "done"}
    /\ front.served < MaxFrontRequests
    /\ inflight = NoCalls

McpHandleGetCredentials_LogsFirst(arguments, answer, fileOk) ==
    /\ FrontReady
    /\ LET resource_type == arguments["resource_type"]
           resource_name == arguments["resource_name"]
           requesting_agent_id == arguments["requesting_agent_id"]
           ttl_minutes == ArgumentsGet(arguments, "ttl_minutes", DefaultTTL)
           fc == FetchCredentials(resource_type, resource_name, answer)
           r == IF fc.kind # "ok" THEN fc
                ELSE IssueEphemeralToken(BrokerSecret, DefaultTTL, fc.credentials,
                                         requesting_agent_id, resource_type,
                                         resource_name, ttl_minutes, now)
           outcome == "success"
           pending == IF r.kind = "ok" THEN "success"
                      ELSE IF r.exc = "ValueError" THEN "validation_error"
                      ELSE "error"
       IN BeginLog("front", [metadata |-> McpMetadata(r, ttl_minutes)] @@ Serving("MCP", r, pending),
                   "MCP", requesting_agent_id,
                   <<resource_type, resource_name>>, outcome, fileOk)
    /\ UNCHANGED <<tokenVars, cfg, sweep, accepted, sessionVars>>

McpHandleGetCredentials(arguments, answer, fileOk) ==
    /\ FrontReady
    /\ LET resource_type == arguments["resource_type"]
           resource_name == arguments["resource_name"]
           requesting_agent_id == arguments["requesting_agent_id"]
           ttl_minutes == ArgumentsGet(arguments, "ttl_minutes", DefaultTTL)
           fc == FetchCredentials(resource_type, resource_name, answer)
           r == IF fc.kind # "ok" THEN fc
                ELSE IssueEphemeralToken(BrokerSecret, DefaultTTL, fc.credentials,
                                         requesting_agent_id, resource_type,
                                         resource_name, ttl_minutes, now)
           outcome == IF r.kind = "ok" THEN "success"
                      ELSE IF r.exc = "ValueError" THEN "failure"
                      ELSE "error"
           pending == IF r.kind = "ok" THEN "success"
                      ELSE IF outcome = "failure" THEN "validation_error"
                      ELSE "error"
       IN BeginLog("front", [metadata |-> McpMetadata(r, ttl_minutes)] @@ Serving("MCP", r, pending),
                   "MCP", requesting_agent_id,
                   <<resource_type, resource_name>>, outcome, fileOk)
    /\ UNCHANGED <<tokenVars, cfg, sweep, accepted, sessionVars>>

BEARER_TOKEN == "dev-token-change-in-production"

\* No Authorization header.
NoHeader == ""

ValidHeader == "Bearer " \o BEARER_TOKEN

AuthorizationHeaders ==
    {NoHeader, ValidHeader, "bearer  " \o BEARER_TOKEN,
     "Bearer invalid-token", "Basic " \o BEARER_TOKEN, "Bearer",
     "Bearer " \o BEARER_TOKEN \o " x"}

VerifyBearerToken_AnyToken(authorization) ==
    IF authorization = NoHeader THEN [kind |-> "http", status |-> "401"]
    ELSE [kind |-> "ok", agent_id |-> "authenticated-agent"]

\* verify_bearer_token: the header must split into a scheme and a token; any
\* failure is answered 401.
VerifyBearerToken(authorization) ==
    IF authorization = NoHeader THEN [kind |-> "http", status |-> "401"]
    ELSE LET parts == Split(authorization)
         IN IF Len(parts) # 2 THEN [kind |-> "http", status |-> "401"]
            ELSE IF Lower(parts[1]) # "bearer" THEN [kind |-> "http", status |-> "401"]
            ELSE IF parts[2] # BEARER_TOKEN THEN [kind |-> "http", status |-> "401"]
            ELSE [kind |-> "ok", agent_id |-> "authenticated-agent"]

\* The capability handlers: the name parameter, then the TTL check, then the
\* issuance service.
HandleCapability(capability, parameters, agent, answer, tick) ==
    LET handler == CAPABILITY_HANDLERS[capability]
        name == ArgumentsGet(parameters, handler.key, "")
        duration_minutes == ArgumentsGet(parameters, "duration_minutes",
                                         JsonNumber("int", DefaultTTL))
    IN IF name = "" THEN [kind |-> "bad_parameters", calls |-> <<>>]
       ELSE IF \/ ~IsInstanceInt(duration_minutes)
               \/ duration_minutes.value < MinTTL
               \/ duration_minutes.value > MaxTTL
       THEN [kind |-> "bad_parameters", calls |-> <<>>]
       ELSE FetchAndIssueToken(BrokerSecret, DefaultTTL, handler.resource_type,
                               name, agent, duration_minutes.value, answer, tick)

\* POST /task: the bearer check runs as a dependency before the endpoint;
\* an unknown capability raises inside the try block and is answered by the
\* except clause for unexpected errors, like any failure of a handler.
\* What verify_bearer_token answers to each header the model sends.
VerifiedHeaders == [h \in AuthorizationHeaders |-> VerifyBearerToken(h)]

A2aExecuteTask(authorization, capability, parameters, agent, answer, fileOk) ==
    /\ FrontReady
    /\ LET auth == VerifiedHeaders[authorization]
           r == IF capability \notin DOMAIN CAPABILITY_HANDLERS
                THEN [kind |-> "unknown_capability", calls |-> <<>>]
                ELSE HandleCapability(capability, parameters, agent, answer, now)
           asked == [authorized |->
                        authorization \in {ValidHeader, "bearer  " \o BEARER_TOKEN},
                     capability |-> capability,
                     duration_in_range |->
                        \/ "duration_minutes" \notin DOMAIN parameters
                        \/ /\ parameters["duration_minutes"].type = "int"
                           /\ parameters["duration_minutes"].value \in MinTTL..MaxTTL]
           f(res, pending) == asked @@ Serving("A2A", res, pending)
       IN IF auth.kind # "ok"
          THEN /\ front' = [f([kind |-> "unauthorized", calls |-> <<>>], auth.status)
                              EXCEPT !.pc = "done", !.response = auth.status]
               /\ UNCHANGED <<result, localLog, failedQueue, inflight, nextEventId>>
          ELSE IF r.kind = "ok"
          THEN BeginLog("front", f(r, "completed"), "A2A", agent,
                        <<CAPABILITY_HANDLERS[capability].resource_type,
                          parameters[CAPABILITY_HANDLERS[capability].key]>>,
                        "success", fileOk)
          ELSE BeginLog("front", f(r, "failed"), "A2A", agent,
                        <<capability>>, "failure", fileOk)
    /\ UNCHANGED <<tokenVars, cfg, sweep, accepted, sessionVars>>

\* The compact serialization of a token, as far as its text is concerned.
CompactSerialization(token) ==
    "eyJ." \o token.claims.sub \o "." \o token.claims.resource_type \o "/"
           \o token.claims.resource_name \o "." \o ToString(token.claims.exp)

ClarificationText ==
    "I couldn't understand your credential request. "
    \o "Please specify what credentials you need, for example:\n"
    \o "- 'I need database credentials for prod-postgres'\n"
    \o "- 'Get API credentials for stripe-api'\n"
    \o "- 'Request SSH keys for production-server'\n"
    \o "- 'Provide credentials for generic-secret-name'"

\* The success text; "#" stands for its leading check-mark character.
ResponseText(intent, token_data) ==
    "# Generated ephemeral " \o intent.resource_type \o " credentials for "
    \o intent.resource_name \o ".\n\nToken expires in "
    \o ToString(intent.duration_minutes) \o " minutes ("
    \o ToString(token_data.expires_in) \o " seconds).\nIssued at: "
    \o ToString(token_data.issued_at)

\* str(e) of the exception fetch_and_issue_token raised.
ErrorText(r, resource_name) ==
    CASE r.kind = "not_found" -> "Resource '" \o resource_name \o "' not found in 1Password vault"
      [] r.kind = "expired" -> "Signature has expired"
      [] r.kind = "vault_error" -> "1Password Connect request failed"
      [] OTHER -> "Invalid token"

OutputMessages(intent, r) ==
    IF intent.resource_name = NoName
    THEN << Message(<<Part(ClarificationText, "text/plain")>>) >>
    ELSE IF r.kind = "ok"
    THEN << Message(<<Part(ResponseText(intent, r), "text/plain"),
                      Part(CompactSerialization(r.token), "application/jwt")>>) >>
    ELSE << Message(<<Part("Failed to provision credentials: "
                           \o ErrorText(r, intent.resource_name), "text/plain")>>) >>

\* Request bodies of /run: one text part per utterance, no message at all,
\* a token part ahead of the text, and a JSON part alone.
AcpInputs ==
    { << Message(<<Part(u, "text/plain")>>) >> : u \in Utterances }
    \cup { <<>>,
           << Message(<<>>) >>,
           << Message(<<Part("eyJ.agent-9.database/prod-db.60", "application/jwt"),
                        Part("  Hello, how are you?  ", "text/plain")>>) >>,
           << Message(<<Part("database credentials for prod-db", "application/json")>>) >> }

NeedsClarification_Never(intent) == FALSE

\* if not intent["resource_name"]
NeedsClarification(intent) == intent.resource_name = NoName

NoInput(input) == input = <<>> \/ input[1].parts = <<>>

UserMessage(input) == IF NoInput(input) THEN "" ELSE input[1].parts[1].content

\* What parse_intent makes of each input the model sends.
ParsedInputs == [input \in AcpInputs |-> ParseIntent(UserMessage(input))]

AcpRunAgent(input, requested, answer, fileOk) ==
    /\ FrontReady
    /\ nextUuid <= Len(UuidPool)
    /\ LET created == CreateSession(sessions, requested, UuidPool[nextUuid], now)
           session_id == created.id
           no_input == NoInput(input)
           intent == ParsedInputs[input]
           r == FetchAndIssueToken(BrokerSecret, DefaultTTL, intent.resource_type,
                                   intent.resource_name, session_id,
                                   intent.duration_minutes, answer, now)
           resource == <<intent.resource_type, intent.resource_name>>
           f(res, pending) ==
               [input |-> input, output |-> OutputMessages(intent, res), intent |-> intent]
               @@ [Serving("ACP", res, pending) EXCEPT !.session_id = session_id]
           creation == [op |-> "create_session", session_id |-> requested,
                        returned |-> session_id]
           recorded == /\ front'.pc = "done"
                       /\ front'.response \notin {"exception", "500"}
       IN /\ IF no_input
             THEN \* ValueError before intent is bound: the handler's own
                  \* except clause fails on intent and the request ends in a 500.
                  /\ front' = [f([kind |-> "no_input", calls |-> <<>>], "500")
                                 EXCEPT !.pc = "done", !.response = "500",
                                        !.output = <<>>]
                  /\ UNCHANGED <<result, localLog, failedQueue, inflight, nextEventId>>
             ELSE IF NeedsClarification(intent)
             THEN /\ front' = [f([kind |-> "unparsed", calls |-> <<>>], "error")
                                 EXCEPT !.pc = "done", !.response = "error"]
                  /\ UNCHANGED <<result, localLog, failedQueue, inflight, nextEventId>>
             ELSE IF r.kind = "ok"
             THEN BeginLog("front", f(r, "completed"), "ACP", session_id,
                           resource, "success", fileOk)
             ELSE BeginLog("front", f(r, "failed"), "ACP", session_id,
                           resource, "error", fileOk)
          /\ sessions' = IF recorded
                         THEN AddInteraction(created.sessions, session_id, front'.run_id,
                                             front'.input, front'.output,
                                             front'.response, UuidPool[nextUuid], now)
                         ELSE created.sessions
          /\ sessionCalls' = IF recorded
                             THEN sessionCalls \o
                                    <<creation, [op |-> "add_interaction",
                                                 session_id |-> session_id,
                                                 run_id |-> front'.run_id]>>
                             ELSE Append(sessionCalls, creation)
          /\ nextUuid' = IF requested = NoSessionId THEN nextUuid + 1 ELSE nextUuid
    /\ UNCHANGED <<tokenVars, cfg, sweep, accepted, loop>>

FrontInputs ==
    { << Message(<<Part(u, "text/plain")>>) >> :
        u \in {"database credentials for prod-db", "Hello, how are you?",
               "database credentials for prod-db for 0 minutes"} }

NextFront ==
    \/ \E arguments \in McpArguments, answer \in FrontAnswers("prod-db"), fileOk \in BOOLEAN :
          McpHandleGetCredentials(arguments, answer, fileOk)
    \/ \E capability \in DOMAIN CAPABILITY_HANDLERS, answer \in FrontAnswers("prod-db"),
          fileOk \in BOOLEAN :
          \E parameters \in A2aParameters(capability) :
             A2aExecuteTask(ValidHeader, capability, parameters, "agent-2", answer, fileOk)
    \/ \E input \in FrontInputs, answer \in FrontAnswers("prod-db"), fileOk \in BOOLEAN :
          AcpRunAgent(input, NoSessionId, answer, fileOk)
    \/ \E id \in DOMAIN inflight, status \in Statuses : PostResponds(id, status)
    \/ \E id \in DOMAIN inflight : PostRaises(id)
    \/ \E id \in DOMAIN inflight : SleepEnds(id)

SpecFront == InitAudit /\ [][NextFront]_vars

\* ------------------------------------------------------------------------
\* The agent-task endpoint on its own, with the requests a client can send
\* it: any Authorization header, any capability name, any JSON value as
\* duration_minutes.
\* ------------------------------------------------------------------------
NextA2a ==
    \/ \E capability \in DOMAIN CAPABILITY_HANDLERS, answer \in FrontAnswers("prod-db"),
          fileOk \in BOOLEAN :
          \E parameters \in A2aParameters(capability) :
             A2aExecuteTask(ValidHeader, capability, parameters, "agent-2", answer, fileOk)
    \/ \E capability \in DOMAIN CAPABILITY_HANDLERS, v \in OtherDurations,
          answer \in FrontAnswers("prod-db") :
          A2aExecuteTask(ValidHeader, capability,
                         (CAPABILITY_HANDLERS[capability].key :> "prod-db")
                            @@ ("duration_minutes" :> v),
                         "agent-2", answer, TRUE)
    \/ \E authorization \in AuthorizationHeaders, answer \in FrontAnswers("prod-db") :
          A2aExecuteTask(authorization, "request_database_credentials",
                         [database_name |-> "prod-db"], "agent-2", answer, TRUE)
    \/ \E authorization \in AuthorizationHeaders :
          A2aExecuteTask(authorization, UnknownCapability, NoParameters, "agent-2",
                         [kind |-> "null"], TRUE)
    \/ \E id \in DOMAIN inflight, status \in Statuses : PostResponds(id, status)
    \/ \E id \in DOMAIN inflight : PostRaises(id)
    \/ \E id \in DOMAIN inflight : SleepEnds(id)

SpecA2a == InitAudit /\ [][NextA2a]_vars

\* ------------------------------------------------------------------------
\* The run endpoint on its own, with every input of AcpInputs.
\* ------------------------------------------------------------------------
NextAcp ==
    \/ \E input \in AcpInputs, answer \in FrontAnswers("prod-db"), fileOk \in BOOLEAN :
          \E requested \in {NoSessionId, "session-1"} :
             AcpRunAgent(input, requested, answer, fileOk)
    \/ \E id \in DOMAIN inflight, status \in Statuses : PostResponds(id, status)
    \/ \E id \in DOMAIN inflight : PostRaises(id)
    \/ \E id \in DOMAIN inflight : SleepEnds(id)

SpecAcp == InitAudit /\ [][NextAcp]_vars

\* ------------------------------------------------------------------------
\* A client keeps the token it was issued while the broker goes on serving:
\* run requests that issue further tokens or fail at the vault, their audit
\* events and sessions, validations of the kept token, and the clock.
\* ------------------------------------------------------------------------
HolderTTLs == { [given |-> TRUE, minutes |-> t] : t \in {MinTTL, MaxTTL} }

HolderAnswers == { a \in FrontAnswers("prod-db") : a.kind \in {"item", "raises"} }

HolderInput == << Message(<<Part("database credentials for prod-db", "text/plain")>>) >>

NextHolder ==
    \/ now < MaxHolderMinutes * TicksPerMinute /\ AdvanceMinute
    \/ \E ttl \in HolderTTLs, answer \in HolderAnswers :
          DoFetchAndIssue("database", "prod-db", "agent-1", ttl, answer)
    \/ \E answer \in HolderAnswers :
          AcpRunAgent(HolderInput, NoSessionId, answer, TRUE)
    \/ \E id \in DOMAIN inflight, status \in {200, 500} : PostResponds(id, status)
    \/ \E id \in DOMAIN inflight : PostRaises(id)
    \/ \E id \in DOMAIN inflight : SleepEnds(id)
    \/ DoVerifyJwt
    \/ \E vaultUp \in BOOLEAN : DoValidateToken(vaultUp)

SpecHolder == Init /\ [][NextHolder]_vars

\* ------------------------------------------------------------------------
\* Callers of the session store: every call is one step, so the runs of
\* this specification are the interleavings of concurrent callers.
\* ------------------------------------------------------------------------
SessionIds == {"session-1", "session-2"}

CallsLeft == Len(sessionCalls) < MaxSessionCalls

sessionFrame == <<held, request, cfg, localLog, failedQueue, inflight, nextEventId,
                  front, sweep, accepted, loop>>

DoCreateSession(requested) ==
    /\ CallsLeft
    /\ nextUuid <= Len(UuidPool)
    /\ LET c == CreateSession(sessions, requested, UuidPool[nextUuid], now)
       IN /\ sessions' = c.sessions
          /\ sessionCalls' = Append(sessionCalls,
                 [op |-> "create_session", session_id |-> requested, returned |-> c.id])
          /\ result' = [op |-> "create_session", kind |-> "returned",
                        session_id |-> requested, returned |-> c.id,
                        before |-> sessions]
    /\ nextUuid' = IF requested = NoSessionId THEN nextUuid + 1 ELSE nextUuid
    /\ UNCHANGED <<now, sessionFrame>>

\* The messages of a completed run.
SessionInput == << Message(<<Part("database credentials for prod-db", "text/plain")>>) >>

SessionOutput ==
    << Message(<<Part(ClarificationText, "text/plain"),
                 Part("eyJ.session-1.database/prod-db.300", "application/jwt")>>) >>

DoAddInteraction(session_id, status) ==
    /\ CallsLeft
    /\ nextUuid <= Len(UuidPool)
    /\ LET run_id == Len(sessionCalls) + 1
       IN /\ sessions' = AddInteraction(sessions, session_id, run_id,
                                        SessionInput, SessionOutput, status,
                                        UuidPool[nextUuid], now)
          /\ sessionCalls' = Append(sessionCalls,
                 [op |-> "add_interaction", session_id |-> session_id, run_id |-> run_id])
          /\ result' = [op |-> "add_interaction", kind |-> "returned",
                        session_id |-> session_id, run_id |-> run_id,
                        before |-> sessions]
    /\ UNCHANGED <<now, nextUuid, sessionFrame>>

DoGetSession(session_id) ==
    /\ CallsLeft
    /\ LET g == GetSession(sessions, session_id, now)
       IN /\ sessions' = g.sessions
          /\ result' = [op |-> "get_session", kind |-> "returned",
                        session_id |-> session_id, found |-> g.found,
                        before |-> sessions]
    /\ sessionCalls' = Append(sessionCalls, [op |-> "get_session", session_id |-> session_id])
    /\ UNCHANGED <<now, nextUuid, sessionFrame>>

\* GET /sessions/{session_id}: 404 when get_session finds nothing, else the
\* history with its interaction_count.
DoGetSessionHistory(session_id) ==
    /\ CallsLeft
    /\ LET g == GetSession(sessions, session_id, now)
       IN /\ sessions' = g.sessions
          /\ result' = IF ~g.found
                       THEN [op |-> "get_session_history", kind |-> "returned",
                             session_id |-> session_id, status |-> 404,
                             before |-> sessions]
                       ELSE [op |-> "get_session_history", kind |-> "returned",
                             session_id |-> session_id, status |-> 200,
                             before |-> sessions,
                             created_at |-> g.session.created_at,
                             interaction_count |-> Len(g.session.interactions),
                             interactions |-> g.session.interactions]
    /\ sessionCalls' = Append(sessionCalls,
           [op |-> "get_session_history", session_id |-> session_id])
    /\ UNCHANGED <<now, nextUuid, sessionFrame>>

SessionTick ==
    /\ now < MaxSessionTicks
    /\ now' = now + 1
    /\ UNCHANGED <<result, sessionVars, sessionFrame>>

InitSession ==
    /\ now = 0
    /\ held = NoToken
    /\ request = NoRequest
    /\ result = Idle
    /\ AuditIdle

NextSession ==
    \/ SessionTick
    \/ \E requested \in SessionIds \cup {NoSessionId} : DoCreateSession(requested)
    \/ \E session_id \in SessionIds : DoAddInteraction(session_id, "completed")
    \/ \E session_id \in SessionIds : DoGetSession(session_id)
    \/ \E session_id \in SessionIds : DoGetSessionHistory(session_id)

SpecSession == InitSession /\ [][NextSession]_vars

\* ------------------------------------------------------------------------
\* The session manager statement by statement: coroutines started on one
\* event loop, each running until it finishes or has to wait for the lock.
\* sessionCalls records every access to the map with whether the accessing
\* coroutine held the lock.
\* ------------------------------------------------------------------------
SessionOps == {"create_session", "add_interaction", "get_session"}

Task(op, session_id) ==
    [op |-> op, session_id |-> session_id,
     pc |-> CASE op = "create_session" -> "check"
              [] op = "add_interaction" -> "ensure"
              [] OTHER -> "acquire",
     inner |-> FALSE, new_session_id |-> session_id]

\* The method whose body the coroutine is in: create_session when
\* add_interaction has called it.
Body(t) == IF t.inner THEN "create_session" ELSE t.op

\* The loop resumes a coroutine only when no other is running; one that
\* waits for the lock is resumed when the lock is free.
Runnable(id) ==
    /\ id \in DOMAIN loop.tasks
    /\ loop.tasks[id].pc # "done"
    /\ \/ loop.running = id
       \/ /\ loop.running = 0
          /\ loop.tasks[id].pc = "waiting" => loop.lock = 0

Access(id, kind) ==
    [task |-> id, op |-> Body(loop.tasks[id]), access |-> kind,
     session_id |-> loop.tasks[id].new_session_id,
     locked |-> loop.lock = id]

lockFrame == <<now, held, request, result, cfg, localLog, failedQueue, inflight,
               nextEventId, front, sweep, accepted>>

\* A request handler calls a method of the session manager.
CallSessionManager(op, session_id) ==
    /\ Len(loop.tasks) < MaxTasks
    /\ loop' = [loop EXCEPT !.tasks = Append(@, Task(op, session_id))]
    /\ UNCHANGED <<sessions, sessionCalls, nextUuid, lockFrame>>

\* add_interaction: if session_id not in self.sessions: await create_session.
TaskEnsure(id) ==
    /\ Runnable(id)
    /\ loop.tasks[id].pc = "ensure"
    /\ LET t == loop.tasks[id]
       IN loop' = [loop EXCEPT
                     !.running = id,
                     !.tasks[id] = IF t.session_id \notin DOMAIN sessions
                                   THEN [t EXCEPT !.inner = TRUE, !.pc = "check"]
                                   ELSE [t EXCEPT !.pc = "acquire"]]
    /\ sessionCalls' = Append(sessionCalls, Access(id, "read"))
    /\ UNCHANGED <<sessions, nextUuid, lockFrame>>

\* create_session: if session_id and session_id in self.sessions: return;
\* new_session_id = session_id or a fresh uuid.
TaskCheck(id) ==
    /\ Runnable(id)
    /\ loop.tasks[id].pc = "check"
    /\ nextUuid <= Len(UuidPool)
    /\ LET t == loop.tasks[id]
           given == t.session_id # NoSessionId
           present == given /\ t.session_id \in DOMAIN sessions
       IN /\ loop' = IF present
                     THEN IF t.inner
                          THEN [loop EXCEPT !.running = id,
                                            !.tasks[id] = [t EXCEPT !.inner = FALSE,
                                                                    !.pc = "acquire"]]
                          ELSE [loop EXCEPT !.running = 0,
                                            !.tasks[id] = [t EXCEPT !.pc = "done"]]
                     ELSE [loop EXCEPT
                             !.running = id,
                             !.tasks[id] = [t EXCEPT
                                 !.pc = "acquire",
                                 !.new_session_id = IF given THEN t.session_id
                                                    ELSE UuidPool[nextUuid]]]
          /\ sessionCalls' = IF given THEN Append(sessionCalls, Access(id, "read"))
                             ELSE sessionCalls
          /\ nextUuid' = IF given THEN nextUuid ELSE nextUuid + 1
    /\ UNCHANGED <<sessions, lockFrame>>

\* Mutant: the block is entered without taking the lock.
TaskAcquire_NoLock(id) ==
    /\ Runnable(id)
    /\ loop.tasks[id].pc \in {"acquire", "waiting"}
    /\ LET t == loop.tasks[id]
           inside == CASE Body(t) = "create_session" -> "insert"
                       [] Body(t) = "add_interaction" -> "append"
                       [] OTHER -> "get"
       IN loop' = [loop EXCEPT !.running = id, !.tasks[id] = [t EXCEPT !.pc = inside]]
    /\ UNCHANGED <<sessions, sessionCalls, nextUuid, lockFrame>>

\* async with self.session_lock: a free lock is taken without yielding to
\* the loop; a held one suspends the coroutine until it is released.
TaskAcquire(id) ==
    /\ Runnable(id)
    /\ loop.tasks[id].pc \in {"acquire", "waiting"}
    /\ LET t == loop.tasks[id]
           inside == CASE Body(t) = "create_session" -> "insert"
                       [] Body(t) = "add_interaction" -> "append"
                       [] OTHER -> "get"
       IN loop' = IF loop.lock = 0
                  THEN [loop EXCEPT !.running = id, !.lock = id,
                                    !.tasks[id] = [t EXCEPT !.pc = inside]]
                  ELSE [loop EXCEPT !.running = 0,
                                    !.tasks[id] = [t EXCEPT !.pc = "waiting"]]
    /\ UNCHANGED <<sessions, sessionCalls, nextUuid, lockFrame>>

\* self.sessions[new_session_id] = {...}
TaskInsert(id) ==
    /\ Runnable(id)
    /\ loop.tasks[id].pc = "insert"
    /\ LET t == loop.tasks[id]
       IN /\ sessions' = (t.new_session_id :> NewSession(t.new_session_id, now))
                            @@ sessions
          /\ loop' = [loop EXCEPT !.running = id, !.tasks[id] = [t EXCEPT !.pc = "release"]]
    /\ sessionCalls' = Append(sessionCalls, Access(id, "write"))
    /\ UNCHANGED <<nextUuid, lockFrame>>

\* self.sessions[session_id]["interactions"].append(interaction) and the
\* update of last_activity; a missing key raises out of the block.
TaskAppend(id) ==
    /\ Runnable(id)
    /\ loop.tasks[id].pc = "append"
    /\ LET t == loop.tasks[id]
       IN /\ sessions' = IF t.session_id \in DOMAIN sessions
                         THEN [sessions EXCEPT
                                 ![t.session_id].interactions =
                                     Append(@, Interaction(id, SessionInput, SessionOutput,
                                                           "completed", now)),
                                 ![t.session_id].last_activity = now]
                         ELSE sessions
          /\ loop' = [loop EXCEPT !.running = id, !.tasks[id] = [t EXCEPT !.pc = "release"]]
    /\ sessionCalls' = Append(sessionCalls, Access(id, "write"))
    /\ UNCHANGED <<nextUuid, lockFrame>>

\* return self.sessions.get(session_id)
TaskGet(id) ==
    /\ Runnable(id)
    /\ loop.tasks[id].pc = "get"
    /\ loop' = [loop EXCEPT !.running = id,
                            !.tasks[id] = [loop.tasks[id] EXCEPT !.pc = "release"]]
    /\ sessionCalls' = Append(sessionCalls, Access(id, "read"))
    /\ UNCHANGED <<sessions, nextUuid, lockFrame>>

\* Leaving the async with block releases the lock; create_session called by
\* add_interaction returns into it, any other body returns to its caller.
TaskRelease(id) ==
    /\ Runnable(id)
    /\ loop.tasks[id].pc = "release"
    /\ LET t == loop.tasks[id]
           lock == IF loop.lock = id THEN 0 ELSE loop.lock
       IN loop' = IF t.inner
                  THEN [loop EXCEPT !.running = id, !.lock = lock,
                                    !.tasks[id] = [t EXCEPT !.inner = FALSE,
                                                            !.pc = "acquire"]]
                  ELSE [loop EXCEPT !.running = 0, !.lock = lock,
                                    !.tasks[id] = [t EXCEPT !.pc = "done"]]
    /\ UNCHANGED <<sessions, sessionCalls, nextUuid, lockFrame>>

NextLock ==
    \/ \E op \in SessionOps, session_id \in {NoSessionId, "session-1"} :
          /\ op = "create_session" \/ session_id # NoSessionId
          /\ CallSessionManager(op, session_id)
    \/ \E id \in DOMAIN loop.tasks : TaskEnsure(id)
    \/ \E id \in DOMAIN loop.tasks : TaskCheck(id)
    \/ \E id \in DOMAIN loop.tasks : TaskAcquire(id)
    \/ \E id \in DOMAIN loop.tasks : TaskInsert(id)
    \/ \E id \in DOMAIN loop.tasks : TaskAppend(id)
    \/ \E id \in DOMAIN loop.tasks : TaskGet(id)
    \/ \E id \in DOMAIN loop.tasks : TaskRelease(id)

SpecLock == InitSession /\ [][NextLock]_vars

\* ------------------------------------------------------------------------
\* The intent parser on its own: a text is drawn, parse_intent is applied.
\* ------------------------------------------------------------------------
IntentWords ==
    {"need", "database", "api", "credentials", "for", "prod-db", "16", "minutes"}

RECURSIVE Join(_)
Join(words) ==
    IF words = <<>> THEN ""
    ELSE IF Len(words) = 1 THEN words[1]
    ELSE words[1] \o " " \o Join(Tail(words))

\* Texts of the parser's tests and docstrings, for the patterns the words
\* above do not reach.
ExampleTexts ==
    {"I need database credentials for production-postgres",
     "db creds for test-database",
     "Get API credentials for stripe-api for 10 minutes",
     "I need SSH keys for production-server",
     "credentials for ssh bastion",
     "need bastion ssh",
     "bastion ssh keys",
     "prod-db api token",
     "get creds for 15 mins",
     "need access for 1 minute",
     "access to vault-item",
     "secret for my-secret",
     "creds for 5min",
     "mongodb creds for x",
     "api access for db x",
     "api credentials for database prod-db",
     "database credentials for prod-db for 0 minutes",
     "need credentials for 0 min",
     "Get credentials for 100 minutes",
     "Hello, how are you?"}

Texts ==
    ExampleTexts \cup
    { Join(ws) : ws \in UNION { [1..n -> IntentWords] : n \in 1..MaxWords } }

InitIntent ==
    /\ now = 0
    /\ held = NoToken
    /\ request \in { [kind |-> "text", text |-> t] : t \in Texts }
    /\ result = Idle
    /\ AuditIdle

DoParseIntent ==
    /\ request.kind = "text"
    /\ result = Idle
    /\ result' = [op |-> "parse_intent", kind |-> "returned"] @@ ParseIntent(request.text)
    /\ UNCHANGED <<now, held, request, auditVars>>

NextIntent == DoParseIntent

SpecIntent == InitIntent /\ [][NextIntent]_vars

\* ------------------------------------------------------------------------
\* C1
\* ------------------------------------------------------------------------
IssuedByGenerate == held # NoToken /\ request.kind = "generate_jwt"

\* C1 (as stated): a token issued at wall-clock time T with ttl t in [1,15]
\* is accepted at every query time in [T, T+t) and reported expired at every
\* query time >= T+t.
C1_Original ==
    (IssuedByGenerate /\ result.op = "verify_jwt") =>
        LET expiry == request.at + request.ttl_minutes * TicksPerMinute
        IN /\ (now < expiry) => result.kind = "ok"
           /\ (now >= expiry) => result.kind = "expired"

\* C1 (amended): the expiry instant is the issue time truncated to whole
\* seconds plus t minutes; the token is accepted before it and reported
\* expired from it onwards, the instant itself included.
C1_Lifecycle ==
    (IssuedByGenerate /\ result.op = "verify_jwt") =>
        LET expiry == (NumericDate(request.at) * TicksPerSecond)
                         + request.ttl_minutes * TicksPerMinute
        IN /\ (now < expiry) => result.kind = "ok"
           /\ (now >= expiry) => result.kind = "expired"

\* A 15-minute token found expired exactly at its expiry instant.
C1_Witness ==
    /\ IssuedByGenerate
    /\ request.ttl_minutes = MaxTTL
    /\ result.kind = "expired"
    /\ now = held.claims.exp * TicksPerSecond

\* ------------------------------------------------------------------------
\* C2
\* ------------------------------------------------------------------------
SignatureGenuine(token) ==
    /\ token.kind = "jwt"
    /\ token.signer = BrokerSecret
    /\ token.over = token.claims
    /\ token.sigdiff = GenuineSignature

Unexpired(token) == now < token.claims.exp * TicksPerSecond

DecryptOps == {"verify_and_decrypt", "get_credentials_from_token"}

\* C2: verify_and_decrypt and get_credentials_from_token return credentials
\* only for a token whose signature verifies and whose expiry has not
\* passed; verification is the first call made; an expired or invalid token
\* gives that verify failure with nothing decrypted; a verified token with
\* no credentials claim gives the 'no embedded payload' error.
C2_VerifyBeforeDecrypt ==
    (result.op \in DecryptOps) =>
        /\ result.calls[1] = "verify_jwt"
        /\ (result.kind = "ok") => (SignatureGenuine(held) /\ Unexpired(held))
        /\ (~SignatureGenuine(held)) =>
              (result.kind = "invalid" /\ result.calls = <<"verify_jwt">>)
        /\ (SignatureGenuine(held) /\ ~Unexpired(held)) =>
              (result.kind = "expired" /\ result.calls = <<"verify_jwt">>)
        /\ (result.kind \in {"invalid", "expired"}) => "credentials" \notin DOMAIN result
        /\ (SignatureGenuine(held) /\ Unexpired(held) /\ held.claims.credentials = NoClaim) =>
              (result.kind = "no_payload"
                 /\ result.error = "Token does not contain encrypted credentials")

\* An issued token presented to get_credentials_from_token after its expiry.
C2_Witness ==
    /\ request.kind = "fetch_and_issue"
    /\ held # NoToken
    /\ result.op = "get_credentials_from_token"
    /\ result.kind = "expired"

\* ------------------------------------------------------------------------
\* C3
\* ------------------------------------------------------------------------
Tampered(token) == token.kind = "jwt" /\ token.sigdiff # GenuineSignature

\* The flip reaches the decoded signature: it is not confined to the unused
\* low bits of the last character.
SignatureAltered(token) ==
    /\ token.kind = "jwt"
    /\ \E i \in 1..SigChars :
          /\ token.sigdiff[i] # 0
          /\ ~(i = SigChars /\ token.sigdiff[i] < 2 ^ PadBits)

\* C3 (as stated): flipping any single byte of the signature segment of an
\* issued token makes verify_jwt report invalid.
C3_Original ==
    (result.op = "verify_jwt" /\ Tampered(held)) => result.kind = "invalid"

\* C3 (amended): a flip that changes the decoded signature, or makes the
\* segment undecodable, is reported invalid, never expired, also once the
\* expiry time has passed; an untouched token that is out of date is
\* reported expired, never invalid.
C3_TamperIsInvalid ==
    (result.op = "verify_jwt" /\ IssuedByGenerate) =>
        /\ SignatureAltered(held) => result.kind = "invalid"
        /\ (~Tampered(held) /\ ~Unexpired(held)) => result.kind = "expired"

\* A token whose signature was altered, verified after its expiry time.
C3_Witness ==
    /\ IssuedByGenerate
    /\ SignatureAltered(held)
    /\ ~Unexpired(held)
    /\ result.op = "verify_jwt"
    /\ result.kind = "invalid"

MatchesRequest(r) ==
    /\ r.kind = "ok"
    /\ r.credentials = ExtractCredentialFields(request.answer.item)
    /\ r.agent_id = request.agent_id
    /\ r.resource_type = request.resource_type
    /\ r.resource_name = request.resource_name

\* C6: the token that fetch_and_issue_token yields for a vault record C
\* decrypts, at issuance and at every later time before it expires, to
\* exactly C with the agent id, resource type and resource name of the
\* request.
C6_IssuanceComposition ==
    (request.kind = "fetch_and_issue" /\ held # NoToken) =>
        /\ (result.op = "fetch_and_issue_token") =>
              (held = result.token
                 /\ MatchesRequest(VerifyAndDecrypt(BrokerSecret, result.token, now)))
        /\ (result.op = "verify_and_decrypt" /\ Unexpired(held)) => MatchesRequest(result)

\* verify_and_decrypt has answered for a token issued from a vault record.
C6_Witness ==
    /\ request.kind = "fetch_and_issue"
    /\ held # NoToken
    /\ result.op = "verify_and_decrypt"
    /\ result.kind = "ok"
    /\ result.credentials = ExtractCredentialFields(request.answer.item)
    /\ now > MaxIssueTick

\* ------------------------------------------------------------------------
\* C8
\* ------------------------------------------------------------------------
LogCalls == { inflight[id] : id \in { i \in DOMAIN inflight : inflight[i].caller # "sweep" } }

Returned == result.op = "log_credential_access"

RECURSIVE Backoff(_)
Backoff(n) == IF n = 0 THEN <<>> ELSE Append(Backoff(n - 1), RetryDelay * (2 ^ (n - 1)))

\* C9: a log call whose event ends in the retry queue of a configured
\* collector has posted max_retries + 1 times, with the exponential backoff
\* delays in between; a non-2xx answer is retried like a network error.
C9_Original ==
    Returned /\ cfg.api_enabled /\ result.queued =>
        /\ result.posts = cfg.max_retries + 1
        /\ result.sleeps = Backoff(cfg.max_retries)

\* ------------------------------------------------------------------------
\* C10
\* ------------------------------------------------------------------------
Completed == nextEventId - 1 - Cardinality(DOMAIN inflight)

Min(a, b) == IF a <= b THEN a ELSE b

\* C10: the retry queue never holds more than 1000 events, and after n
\* failed log calls it holds exactly the min(n, 1000) most recent events,
\* oldest first.
C10_QueueBounded ==
    /\ Len(failedQueue) <= QueueMaxLen
    /\ Len(failedQueue) = Min(Completed, QueueMaxLen)
    /\ \A i \in 1..Len(failedQueue) :
          failedQueue[i].id = Completed - Len(failedQueue) + i

C10_Witness ==
    /\ nextEventId = MaxQueueEvents + 1
    /\ inflight = NoCalls
    /\ Len(failedQueue) = QueueMaxLen
    /\ failedQueue[1].id = MaxQueueEvents - QueueMaxLen + 1
    /\ failedQueue[QueueMaxLen].id = MaxQueueEvents

\* ------------------------------------------------------------------------
\* C4
\* ------------------------------------------------------------------------
Issued == front.pc \in {"auditing", "done"} /\ front.token # NoToken

\* C4: every token a front-end (MCP, A2A, ACP) has issued carries a
\* ttl_minutes claim between 1 and 15.
C4_Original == Issued => front.token.claims.ttl_minutes \in MinTTL..MaxTTL

\* ------------------------------------------------------------------------
\* C7
\* ------------------------------------------------------------------------
SuccessResponses == {"success", "completed"}

\* C7: no log call raises, whether the local write fails, every remote
\* attempt fails, or both; the request that issued a token is answered with
\* success all the same.
C7_LoggingNeverRaises ==
    /\ Returned => result.kind = "returned"
    /\ front.pc = "done" /\ front.token # NoToken =>
          front.audit.kind = "returned" /\ front.response \in SuccessResponses

C7_Witness ==
    /\ front.pc = "done"
    /\ front.token # NoToken
    /\ front.response \in SuccessResponses
    /\ cfg.local_fallback /\ cfg.api_enabled /\ cfg.max_retries >= 1
    /\ ~front.audit.file_ok
    /\ front.audit.queued
    /\ front.audit.posts = cfg.max_retries + 1
    /\ ~InLog(localLog, front.audit.event)

\* ------------------------------------------------------------------------
\* C11
\* ------------------------------------------------------------------------
Swept == result.op = "retry_failed_events"

Undelivered(events) ==
    LET Refused(e) == \A i \in DOMAIN accepted : accepted[i] # e.id
    IN SelectSeq(events, Refused)

IsPrefix(s, t) == Len(s) <= Len(t) /\ SubSeq(t, 1, Len(s)) = s

\* C11: when retry_failed_events returns, every event that was queued has
\* been taken out and posted, the number returned is the number of events
\* the collector accepted, and the queue holds exactly the events it did not
\* accept, in their original order; with no log call queueing an event
\* meanwhile, the queue has shrunk by the number returned.
C11_SweepRequeuesFailures ==
    Swept =>
        /\ IsPrefix(result.before, result.taken)
        /\ failedQueue = Undelivered(result.taken)
        /\ result.returned = Len(result.taken) - Len(Undelivered(result.taken))
        /\ result.taken = result.before =>
              Len(failedQueue) = Len(result.before) - result.returned

C11_Witness ==
    /\ Swept
    /\ cfg.api_enabled
    /\ Len(result.before) = 2
    /\ result.taken = result.before
    /\ result.returned = 1
    /\ failedQueue = <<result.before[1]>>

\* ------------------------------------------------------------------------
\* C12
\* ------------------------------------------------------------------------
\* C12: a log call made while no collector is configured sends no POST and
\* leaves the retry queue without its event.
C12_Original ==
    Returned /\ ~cfg.api_enabled =>
        /\ result.posts = 0
        /\ \A i \in DOMAIN failedQueue : failedQueue[i] # result.event

\* ------------------------------------------------------------------------
\* C13
\* ------------------------------------------------------------------------
Invoked ==
    /\ front.pc \in {"auditing", "done"}
    /\ front.core \notin {"bad_parameters", "unparsed", "no_input", "unauthorized",
                         "unknown_capability"}

RequestEvent ==
    IF front.pc = "done" THEN front.audit.event ELSE inflight[front.first_event].event

\* C13: a front-end request that has called the issuance service has emitted
\* exactly one credential_access event, built once the outcome of the
\* credential operation was known: its outcome is 'success' exactly when a
\* token was issued.
C13_OneEventAfterOperation ==
    Invoked =>
        /\ nextEventId = front.first_event + 1
        /\ RequestEvent.id = front.first_event
        /\ RequestEvent.event_type = "credential_access"
        /\ RequestEvent.outcome = "success" <=> front.token # NoToken

C13_Witness ==
    /\ Invoked
    /\ front.pc = "done"
    /\ front.protocol = "MCP"
    /\ front.core = "not_found"
    /\ front.token = NoToken
    /\ RequestEvent.outcome = "failure"
    /\ nextEventId = front.first_event + 1

\* ------------------------------------------------------------------------
\* C14
\* ------------------------------------------------------------------------
Fetched == result.op = "fetch_credentials"

\* C14: fetch_credentials with a resource_type outside database, api, ssh,
\* generic fails with the invalid-input error without one call to the vault
\* gateway, whatever the vault would have answered.
C14_ValidationBeforeVault ==
    Fetched /\ request.resource_type \notin ResourceTypes =>
        /\ result.kind = "invalid_input"
        /\ result.exc = "ValueError"
        /\ result.calls = <<>>

C14_Witness ==
    /\ Fetched
    /\ request.resource_type = "bogus"
    /\ request.answer.kind = "raises"
    /\ result.kind = "invalid_input"
    /\ result.calls = <<>>

\* ------------------------------------------------------------------------
\* C15
\* ------------------------------------------------------------------------
FetchOutcomes ==
    { FetchCredentials(rtype, rname, answer) :
        rtype \in TypeInputs, rname \in ResourceNames,
        answer \in UNION { VaultAnswers(n) : n \in ResourceNames } }

\* C15: the error a failed fetch raises tells the caller, by its kind alone,
\* which of the three failures happened: no fetch failing for another reason
\* (bad resource_type, item missing, gateway exception) raises the same one.
C15_Original ==
    Fetched /\ result.kind # "ok" =>
        \A other \in FetchOutcomes :
            other.kind \notin {"ok", result.kind} => other.exc # result.exc

\* ------------------------------------------------------------------------
\* C16
\* ------------------------------------------------------------------------
Position(calls, name) ==
    IF \E i \in DOMAIN calls : calls[i] = name
    THEN CHOOSE i \in DOMAIN calls : calls[i] = name
    ELSE 0

\* C16: in fetch_and_issue_token the token is generated only after
\* fetch_credentials has handed back a credential record; a failed fetch
\* comes out as it was raised with no token generated, and a failed issuance
\* comes out as it was raised with no token returned.
C16_FetchThenIssue ==
    result.op = "fetch_and_issue_token" =>
        LET f == FetchCredentials(request.resource_type, request.resource_name,
                                  request.answer)
        IN /\ f.kind # "ok" =>
                /\ result.kind = f.kind /\ result.exc = f.exc
                /\ Position(result.calls, "generate_jwt") = 0
                /\ held = NoToken
           /\ f.kind = "ok" =>
                /\ Position(result.calls, "generate_jwt")
                      > Position(result.calls, "extract_credential_fields")
                /\ Position(result.calls, "extract_credential_fields") > 0
                /\ result.kind # "ok" =>
                      /\ held = NoToken
                      /\ result.exc \in {"ExpiredSignatureError", "InvalidTokenError"}
                /\ result.kind = "ok" => held = result.token

C16_Witness ==
    /\ result.op = "fetch_and_issue_token"
    /\ request.answer.kind = "item"
    /\ request.resource_type \in ResourceTypes
    /\ result.kind = "expired"
    /\ held = NoToken
    /\ Position(result.calls, "generate_jwt") > 0

\* ------------------------------------------------------------------------
\* C17
\* ------------------------------------------------------------------------
\* C17: whatever call of whatever caller comes next, a session that exists
\* stays, with the created_at it has and with every interaction it holds:
\* a second create_session or add_interaction for its id overwrites nothing.
C17_NothingOverwritten ==
    [][\A sid \in DOMAIN sessions :
          /\ sid \in DOMAIN sessions'
          /\ sessions'[sid].created_at = sessions[sid].created_at
          /\ IsPrefix(sessions[sid].interactions, sessions'[sid].interactions)]_vars

C17_Witness ==
    /\ Len(sessionCalls) = 4
    /\ sessionCalls[1].op = "create_session" /\ sessionCalls[1].session_id = "session-1"
    /\ sessionCalls[2].op = "add_interaction" /\ sessionCalls[2].session_id = "session-1"
    /\ sessionCalls[3].op = "create_session" /\ sessionCalls[3].session_id = "session-1"
    /\ sessionCalls[4].op = "add_interaction" /\ sessionCalls[4].session_id = "session-1"
    /\ Len(sessions["session-1"].interactions) = 2
    /\ sessions["session-1"].created_at = 0
    /\ sessions["session-1"].last_activity = MaxSessionTicks

\* ------------------------------------------------------------------------
\* C18
\* ------------------------------------------------------------------------
\* C18: create_session with an id that exists returns that id and leaves the
\* store as it was: same sessions, same created_at, same interactions.
C18_CreateExistingIsNoOp ==
    result.op = "create_session" /\ result.session_id \in DOMAIN result.before =>
        /\ result.returned = result.session_id
        /\ sessions = result.before

C18_Witness ==
    /\ result.op = "create_session"
    /\ result.session_id \in DOMAIN result.before
    /\ Len(result.before[result.session_id].interactions) > 0
    /\ result.before[result.session_id].created_at < now
    /\ \E i \in DOMAIN sessionCalls :
          /\ i < Len(sessionCalls)
          /\ sessionCalls[i].op = "create_session"
          /\ sessionCalls[i].session_id = result.session_id
          /\ sessionCalls[i].returned = result.session_id

\* ------------------------------------------------------------------------
\* C19
\* ------------------------------------------------------------------------
RunsFor(sid) ==
    LET Mine(c) == c.op = "add_interaction" /\ c.session_id = sid
        mine == SelectSeq(sessionCalls, Mine)
    IN [i \in DOMAIN mine |-> mine[i].run_id]

RunsIn(session) == [i \in DOMAIN session.interactions |-> session.interactions[i].run_id]

\* C19: every session holds one interaction per add_interaction call made for
\* its id, in call order, and an id add_interaction was called for has a
\* session, created by that call when it was missing.
C19_InteractionsMatchCalls ==
    /\ \A sid \in DOMAIN sessions : RunsIn(sessions[sid]) = RunsFor(sid)
    /\ \A sid \in SessionIds : RunsFor(sid) # <<>> => sid \in DOMAIN sessions

C19_Witness ==
    /\ Len(sessionCalls) >= 2
    /\ sessionCalls[1].op = "add_interaction"
    /\ sessionCalls[1].session_id = "session-2"
    /\ "session-2" \in DOMAIN sessions
    /\ Len(sessions["session-2"].interactions) = 2
    /\ \A i \in DOMAIN sessionCalls : sessionCalls[i].op # "create_session"

\* ------------------------------------------------------------------------
\* C20
\* ------------------------------------------------------------------------
\* C20: get_session and the session-history endpoint leave the store as it
\* was, and for an id without a session they answer not-found (404), never
\* with a session.
C20_GetIsReadOnly ==
    /\ result.op \in {"get_session", "get_session_history"} => sessions = result.before
    /\ result.op = "get_session" =>
          (result.found <=> result.session_id \in DOMAIN result.before)
    /\ result.op = "get_session_history" =>
          (result.status = 404 <=> result.session_id \notin DOMAIN result.before)

C20_Witness ==
    /\ result.op = "get_session_history"
    /\ result.status = 404
    /\ result.session_id \notin DOMAIN sessions
    /\ DOMAIN sessions # {}


\* ------------------------------------------------------------------------
\* Intent parser claims
\* ------------------------------------------------------------------------
Parsed == result.op = "parse_intent"

Lowest(S) == CHOOSE h \in S : \A g \in S : h <= g

\* The patterns of one resource type that match the words.
TypeHits(t, words) == { j \in 1..Len(PATTERNS[t]) : Search(PATTERNS[t][j], words).found }

GenericHits(words) ==
    { j \in 1..Len(generic_patterns) : Search(generic_patterns[j], words).found }

PriorityOrder == <<"database", "api", "ssh">>

\* C22: parse_intent returns the first resource type, in the order database,
\* api, ssh, that has a matching pattern, with resource_name taken from the
\* first matching pattern of that type; generic is returned only when no
\* typed pattern matches.
C22_TypePriority ==
    Parsed =>
      LET words == Split(Lower(request.text))
          types == { k \in 1..Len(PriorityOrder) : TypeHits(PriorityOrder[k], words) # {} }
      IN IF types = {}
         THEN result.resource_type = "generic"
         ELSE LET t == PriorityOrder[Lowest(types)]
              IN /\ result.resource_type = t
                 /\ result.resource_name =
                      Search(PATTERNS[t][Lowest(TypeHits(t, words))], words).group

\* A text matching a database pattern, an api pattern and a generic pattern
\* has been parsed to database.
C22_Witness ==
    /\ Parsed
    /\ LET words == Split(Lower(request.text))
       IN /\ TypeHits("database", words) # {}
          /\ TypeHits("api", words) # {}
          /\ GenericHits(words) # {}
    /\ result.resource_type = "database"

\* C23 (as stated): parse_intent always returns duration_minutes in [1,15],
\* and 5 when the text has no duration expression.
C23_Original ==
    Parsed =>
      /\ result.duration_minutes \in MinTTL..MaxTTL
      /\ ~DurationMatch(Lower(request.text)).found => result.duration_minutes = DefaultTTL

\* C24 (as stated): 'Get credentials for 100 minutes' gives resource_name
\* null with the duration capped at 15; 'Hello, how are you?' gives generic
\* and resource_name null.
C24_Original ==
    Parsed =>
      /\ request.text = "Get credentials for 100 minutes" =>
            (result.resource_name = NoName /\ result.duration_minutes = MaxTTL)
      /\ request.text = "Hello, how are you?" =>
            (result.resource_type = "generic" /\ result.resource_name = NoName)

\* C24: 'Get credentials for 100 minutes' gives generic with resource_name
\* "100", captured by the generic 'credentials for X' pattern, and the
\* duration capped at 15; resource_name is null exactly when no typed and no
\* generic pattern matches, as for 'Hello, how are you?', which gives generic
\* and null.
C24_NameNullOnlyWithoutMatch ==
    Parsed =>
      LET words == Split(Lower(request.text))
          unmatched == /\ \A k \in 1..Len(PriorityOrder) : TypeHits(PriorityOrder[k], words) = {}
                       /\ ~Search(<<Lit({"credential", "credentials"}), Lit({"for"}), Cap>>, words).found
                       /\ ~Search(<<Lit({"cred", "creds"}), Lit({"for"}), Cap>>, words).found
                       /\ ~Search(<<Lit({"access"}), Lit({"to"}), Cap>>, words).found
                       /\ ~Search(<<Lit({"secret"}), Lit({"for"}), Cap>>, words).found
      IN /\ (result.resource_name = NoName) <=> unmatched
         /\ request.text = "Get credentials for 100 minutes" =>
               /\ result.resource_type = "generic"
               /\ result.resource_name = "100"
               /\ result.duration_minutes = MaxTTL
         /\ request.text = "Hello, how are you?" =>
               (result.resource_type = "generic" /\ result.resource_name = NoName)

C24_Witness ==
    /\ Parsed
    /\ request.text = "Get credentials for 100 minutes"
    /\ result.resource_name = "100"


\* ------------------------------------------------------------------------
\* C21
\* ------------------------------------------------------------------------
\* A /run request whose interaction has been stored.
AcpRecorded ==
    /\ front.pc = "done"
    /\ front.protocol = "ACP"
    /\ front.response \in {"completed", "failed", "error"}

LastInteraction ==
    LET stored == sessions[front.session_id].interactions
    IN stored[Len(stored)]

NonTextParts(messages) ==
    LET parts == AllParts(messages)
    IN { parts[i] : i \in { j \in 1..Len(parts) : parts[j].content_type # "text/plain" } }

HasTextPart(messages) ==
    \E i \in 1..Len(AllParts(messages)) : AllParts(messages)[i].content_type = "text/plain"

C25_UnparsedGetsClarification ==
    (/\ front.pc \in {"auditing", "done"}
     /\ front.protocol = "ACP"
     /\ front.core # "no_input"
     /\ front.intent.resource_name = NoName)
    => /\ front.pc = "done"
       /\ front.response = "error"
       /\ front.output = << Message(<<Part(ClarificationText, "text/plain")>>) >>
       /\ front.calls = <<>>
       /\ front.token = NoToken
       /\ nextEventId = front.first_event

C25_Witness ==
    /\ front.pc = "done"
    /\ front.protocol = "ACP"
    /\ front.input = << Message(<<Part("Hello, how are you?", "text/plain")>>) >>
    /\ front.intent.resource_name = NoName
    /\ front.response = "error"
    /\ LastInteraction.status = "error"

\* ------------------------------------------------------------------------
\* Claims about the agent-task endpoint (SpecA2a)
\* ------------------------------------------------------------------------
A2aServed == front.pc \in {"auditing", "done"} /\ front.protocol = "A2A"

\* C27 (as stated): a task whose duration_minutes is not an integer between 1
\* and 15 is rejected by the capability handler before anything is issued.
C27_Original ==
    (/\ A2aServed
     /\ front.authorized
     /\ front.capability \in DOMAIN CAPABILITY_HANDLERS
     /\ ~front.duration_in_range)
    => /\ front.core = "bad_parameters"
       /\ front.calls = <<>>
       /\ front.token = NoToken

\* C28: a task request without a valid bearer token is answered 401; no
\* credential operation runs, no token is issued and no audit event is made.
C28_UnauthorizedTaskDoesNothing ==
    (A2aServed /\ ~front.authorized)
    => /\ front.pc = "done"
       /\ front.response = "401"
       /\ front.core = "unauthorized"
       /\ front.calls = <<>>
       /\ front.token = NoToken
       /\ nextEventId = front.first_event
       /\ inflight = NoCalls

C28_Witness ==
    /\ A2aServed
    /\ ~front.authorized
    /\ front.capability = "request_database_credentials"
    /\ front.pc = "done"
    /\ front.response = "401"

\* C29 (as stated): an authenticated task naming a capability that is not
\* registered is answered with HTTP 400 and runs no handler.
C29_Original ==
    (/\ A2aServed
     /\ front.pc = "done"
     /\ front.authorized
     /\ front.capability \notin DOMAIN CAPABILITY_HANDLERS)
    => /\ front.response = "400"
       /\ front.calls = <<>>
       /\ nextEventId = front.first_event

\* ------------------------------------------------------------------------
\* Claims about the expiry helpers and the lifetime of an issued token
\* (SpecCodec)
\* ------------------------------------------------------------------------
HelperAnswered == result.op \in {"is_token_expired", "get_time_until_expiry"}

\* The held token is signed by the broker and its exp claim has passed.
HeldExpired == held # NoToken /\ VerifyJwt(BrokerSecret, held, now).kind = "expired"

HeldGarbage == held = [kind |-> "garbage"]

C30_Original ==
    (/\ result.op = "fetch_and_issue_token"
     /\ result.kind = "ok")
    => LET ttl == IF request.ttl_given THEN request.ttl_minutes ELSE DefaultTTL
       IN /\ held.claims.exp = held.claims.iat + ttl * SecondsPerMinute
          /\ result.expires_in = ttl * SecondsPerMinute

\* ------------------------------------------------------------------------
\* Claims about reading an issued token back (SpecCodec)
\* ------------------------------------------------------------------------
VaultCalls == {"get_item_by_title", "extract_credential_fields"}

CallsOf(r) == { r.calls[i] : i \in DOMAIN r.calls }

\* The held token came out of fetch_and_issue_token and still verifies.
HeldIssuedAndValid ==
    /\ request.kind = "fetch_and_issue"
    /\ held # NoToken
    /\ VerifyJwt(BrokerSecret, held, now).kind = "ok"

\* C31: validate_token and get_credentials_from_token make no call to the
\* vault gateway, and for an issued, unexpired token they succeed whether or
\* not the vault would answer.
C31_TokenReadsNeverCallVault ==
    result.op \in {"validate_token", "get_credentials_from_token"}
    => /\ CallsOf(result) \cap VaultCalls = {}
       /\ HeldIssuedAndValid => result.kind = "ok"

C31_Witness ==
    /\ result.op = "validate_token"
    /\ ~result.vault_up
    /\ HeldIssuedAndValid
    /\ result.kind = "ok"
    /\ result.time_remaining > 0

\* ------------------------------------------------------------------------
\* Claims about a token kept while the broker goes on working (SpecHolder)
\* ------------------------------------------------------------------------
HeldExpiry == held.claims.exp * TicksPerSecond

\* C32: whatever the broker has done since the token was issued, verify_jwt
\* accepts the token at every instant before its expiry and answers
\* "expired" at every instant from its expiry on.
C32_OutcomeDependsOnTokenAndTime ==
    (result.op = "verify_jwt" /\ held # NoToken)
    => /\ now < HeldExpiry => result.kind = "ok" /\ result.payload = held.claims
       /\ now >= HeldExpiry => result.kind = "expired"

\* A later run has issued another token and its audit event has been
\* handled; the kept token is verified before and after its expiry.
C32_Witness ==
    /\ result.op = "verify_jwt"
    /\ held # NoToken
    /\ front.pc = "done"
    /\ front.token \notin {NoToken, held}
    /\ nextEventId > 1
    /\ DOMAIN sessions # {}
    /\ now < HeldExpiry
    /\ result.kind = "ok"

C32_WitnessExpired ==
    /\ result.op = "verify_jwt"
    /\ held # NoToken
    /\ front.pc = "done"
    /\ front.core = "vault_error"
    /\ now >= HeldExpiry
    /\ result.kind = "expired"

\* ------------------------------------------------------------------------
\* Claims about the session lock (SpecLock)
\* ------------------------------------------------------------------------
Accesses == { sessionCalls[i] : i \in DOMAIN sessionCalls }

\* The lock is free whenever no coroutine of the session manager runs, and
\* no coroutine ever has to wait for it.
LockNeverHeldAcrossCalls ==
    /\ loop.running = 0 => loop.lock = 0
    /\ \A id \in DOMAIN loop.tasks :
          /\ loop.tasks[id].pc # "waiting"
          /\ loop.tasks[id].pc \in {"check", "ensure", "acquire", "done"}
                => loop.lock # id

Ids(q) == {q[i].id : i \in DOMAIN q}

\* A step in which the full queue takes one more event and loses one.
Overflows ==
    /\ Len(failedQueue) = QueueMaxLen
    /\ Len(failedQueue') = QueueMaxLen
    /\ failedQueue' # failedQueue

Evicted == Ids(failedQueue) \ Ids(failedQueue')

\* C34 (as stated): whenever the full retry queue drops an event, the dropped
\* event is the one created earliest of the queued events, in every
\* interleaving of concurrent log calls and sweeps.
C34_Original ==
    [][Overflows =>
          \A d \in Evicted : \A x \in Ids(failedQueue) : d <= x]_vars

\* C34 (amended): whenever the full retry queue drops an event, the dropped
\* event is the one at the head of the queue, the event that was appended to
\* the queue least recently; the other events keep their order and the new
\* event goes to the tail.
C34_DropsHeadOfQueue ==
    [][Overflows =>
          /\ Evicted = {Head(failedQueue).id}
          /\ SubSeq(failedQueue', 1, QueueMaxLen - 1) = Tail(failedQueue)]_vars

\* The queue overflowed and dropped the event created second while the event
\* created first, whose delivery failed later, is still queued.
C34_Witness ==
    /\ Len(failedQueue) = QueueMaxLen
    /\ nextEventId > QueueMaxLen + 1
    /\ 1 \in Ids(failedQueue)
    /\ 2 \notin Ids(failedQueue)

\* -------------------------------------------------------------------------
\* C35
\* -------------------------------------------------------------------------

\* A front-end has issued a token and has not answered the request yet.
IssuancePending ==
    /\ front.pc = "auditing"
    /\ front.token # NoToken

\* The front-end's log call is suspended in a backoff sleep between two
\* attempts to reach the collector.
FrontDeliveryBackingOff ==
    \E id \in DOMAIN inflight :
        /\ inflight[id].caller = "front"
        /\ inflight[id].pc = "sleeping"

\* C35: the response for an issued token does not wait for the remote
\* delivery of its audit event: while the collector is unreachable and the
\* delivery is retried with backoff sleeps, the response is never held back.
C35_Original ==
    IssuancePending => ~FrontDeliveryBackingOff

\* -------------------------------------------------------------------------
\* C36
\* -------------------------------------------------------------------------

Is2xx(status) == status \in 200..299

\* The log call of event id has returned with its event delivered.
DeliveredNotQueued(id) ==
    /\ id \notin DOMAIN inflight'
    /\ id \notin Ids(failedQueue')
    /\ result'.op = "log_credential_access"
    /\ result'.delivered
    /\ ~result'.queued

\* The log call of event id goes on with the retry policy: while retries
\* are left it sleeps before the next POST instead of giving up.
RetryPolicyTriggered(id) ==
    inflight[id].retry_count < cfg.max_retries =>
        /\ id \in DOMAIN inflight'
        /\ inflight'[id].pc = "sleeping"

AnsweredWith2xx ==
    \A id \in DOMAIN inflight, status \in Statuses :
        inflight[id].caller # "sweep" /\ PostResponds(id, status) /\ Is2xx(status)
            => DeliveredNotQueued(id)

AnsweredOtherwise ==
    \A id \in DOMAIN inflight, status \in Statuses :
        inflight[id].caller # "sweep" /\ PostResponds(id, status) /\ ~Is2xx(status)
            => RetryPolicyTriggered(id)

\* C36: any 2xx response of the collector counts as a successful delivery
\* (the event is neither retried nor queued); every other response triggers
\* the retry policy, as a connection failure does.
C36_Original ==
    [][AnsweredWith2xx /\ AnsweredOtherwise]_vars

\* -------------------------------------------------------------------------
\* C37
\* -------------------------------------------------------------------------

Quiescent == inflight = NoCalls /\ sweep = NoSweep

\* Every log call hands its event to _post_event_to_api.
Handed == 1..(nextEventId - 1)

Delivered == {accepted[i] : i \in DOMAIN accepted}

Queued == Ids(failedQueue)

Dropped == Handed \ (Delivered \cup Queued)

Excess(n) == IF n > QueueMaxLen THEN n - QueueMaxLen ELSE 0

AttemptsBounded(c) ==
    /\ c.posts <= cfg.max_retries + 1
    /\ c.posts = c.retry_count + 1
    /\ c.sleeps = Backoff(IF c.pc = "sleeping" THEN c.posts ELSE c.posts - 1)

\* A log call that returned made no POST without a collector, and otherwise
\* at most max_retries + 1 POSTs with the backoff sleeps in between.
ReturnedBounded ==
    Returned =>
        /\ result.delivered \in BOOLEAN
        /\ IF cfg.api_enabled
           THEN /\ result.posts \in 1..(cfg.max_retries + 1)
                /\ result.sleeps = Backoff(result.posts - 1)
           ELSE result.posts = 0 /\ result.sleeps = <<>>

\* No event is taken twice by one sweep.
TakenOnce(taken) == Cardinality(Ids(taken)) = Len(taken)

SweepAttemptsOnce ==
    /\ sweep # NoSweep =>
          /\ TakenOnce(sweep.taken)
          /\ \A i \in DOMAIN sweep.failed_again :
                sweep.failed_again[i].id \notin DOMAIN inflight
    /\ Swept => TakenOnce(result.taken)

\* C38: every delivery terminates: it makes at most max_retries + 1 POSTs,
\* sleeps retry_delay * 2^k before its (k+1)-th retry and then returns a
\* boolean; a sweep posts each event it takes once and does not take an
\* event that failed again a second time in the same sweep.
C38_DeliveryTerminates ==
    /\ [](\A id \in DOMAIN inflight : AttemptsBounded(inflight[id]))
    /\ []ReturnedBounded
    /\ []SweepAttemptsOnce
    /\ \A id \in 1..MaxLogCalls : (id \in DOMAIN inflight) ~> (id \notin DOMAIN inflight)

\* A log call returned after its last retry failed: max_retries + 1 POSTs
\* with every backoff sleep in between.
C38_Witness ==
    /\ Returned
    /\ cfg.api_enabled
    /\ cfg.max_retries = MaxRetriesInput
    /\ result.posts = cfg.max_retries + 1
    /\ result.sleeps = Backoff(cfg.max_retries)
    /\ ~result.delivered

\* -------------------------------------------------------------------------
\* C39
\* -------------------------------------------------------------------------

AcpAnswered == front.pc = "done" /\ front.protocol = "ACP"

\* The interactions of the request's session that carry the request's run id.
RunInteractions ==
    LET stored == sessions[front.session_id].interactions
    IN { i \in DOMAIN stored : stored[i].run_id = front.run_id }

\* C39: every /run request for 'credential-broker', also one with an empty
\* input list or a first message without parts, ends with a run response of
\* status completed, error or failed, and exactly one interaction of that
\* run is appended to its session.
C39_Original ==
    AcpAnswered =>
        /\ front.response \in {"completed", "error", "failed"}
        /\ Cardinality(RunInteractions) = 1

\* -------------------------------------------------------------------------
\* C40
\* -------------------------------------------------------------------------

\* The minutes a front-end puts into the audit metadata and the response
\* text: the tool argument of MCP, the parsed duration of ACP.
ReportedTTL ==
    IF front.protocol = "ACP" THEN front.intent.duration_minutes
    ELSE front.metadata.ttl_minutes

\* C40: the ttl an MCP or ACP front-end reports for a token it issued equals
\* the ttl_minutes claim inside the token, for every ttl passed to the core,
\* 0 included.
C40_Original ==
    Issued /\ front.protocol \in {"MCP", "ACP"} =>
        ReportedTTL = front.token.claims.ttl_minutes

====
